---- MODULE Spec2Model ----
(***************************************************************************)
(* Model of mack (Markdown -> Slack BlockKit blocks): the token-tree       *)
(* walker of src/parser/internal.ts (parseBlocks and the builders it       *)
(* calls) and the entry point markdownToBlocks of src/index.ts.            *)
(*                                                                         *)
(* Strings are sequences of one-character strings, so that concatenation,  *)
(* truncation, splitting and suffix matching are computed, not assumed.    *)
(***************************************************************************)
EXTENDS Integers, Sequences, FiniteSets, TLC

(***************************************************************************)
(* Bounds of the model                                                     *)
(***************************************************************************)
\* the configured inline nesting ceiling handed to validateRecursionDepth
MaxRecursionDepth == 3
\* how many blocks beyond the block ceiling the longest document produces
MaxOverflow == 1
\* most inline tokens of a paragraph built from the merge alphabet
MaxInline == 3
\* most child tokens of a generated blockquote
MaxQuoteChildren == 2
\* most columns of a generated table
MaxColumns == 3
\* most items of a generated list
MaxItems == 3
\* most top-level tokens of a mixed document
MaxTokens == 3
\* invocations of the transformation that overlap in time
MaxInvocations == 2
\* most top-level tags of an embedded-markup island
MaxTags == 3

(***************************************************************************)
(* Program constants                                                       *)
(***************************************************************************)
MAX_TEXT_LENGTH == 3000
MAX_BLOCKS == 50
MAX_HEADER_LENGTH == 150
MAX_COLUMN_SETTINGS == 20

(***************************************************************************)
(* Generic helpers                                                         *)
(***************************************************************************)
Max(a, b) == IF a >= b THEN a ELSE b
Min(a, b) == IF a <= b THEN a ELSE b

Rep(c, n) == [i \in 1..n |-> c]

RECURSIVE FlattenRange(_, _, _)
\* the concatenation of ss[lo..hi], by halving
FlattenRange(ss, lo, hi) ==
  IF lo > hi THEN <<>>
  ELSE IF lo = hi THEN ss[lo]
  ELSE LET mid == (lo + hi) \div 2
       IN FlattenRange(ss, lo, mid) \o FlattenRange(ss, mid + 1, hi)

\* the concatenation of a sequence of sequences
Flatten(ss) == FlattenRange(ss, 1, Len(ss))

\* index of the first / last occurrence of character c in s, 0 when absent
FirstIndexOf(s, c) ==
  IF \E i \in 1..Len(s) : s[i] = c
  THEN CHOOSE i \in 1..Len(s) : s[i] = c /\ \A j \in 1..(i - 1) : s[j] # c
  ELSE 0

LastIndexOf(s, c) ==
  IF \E i \in 1..Len(s) : s[i] = c
  THEN CHOOSE i \in 1..Len(s) : s[i] = c /\ \A j \in (i + 1)..Len(s) : s[j] # c
  ELSE 0

StartsWith(s, p) == Len(s) >= Len(p) /\ SubSeq(s, 1, Len(p)) = p

\* String.prototype.split(c)[0]
SplitFirst(s, c) ==
  IF FirstIndexOf(s, c) = 0 THEN s ELSE SubSeq(s, 1, FirstIndexOf(s, c) - 1)

\* String.prototype.split(c).pop()
SplitLast(s, c) == SubSeq(s, LastIndexOf(s, c) + 1, Len(s))

LowerCaseLetters ==
  {"a", "b", "c", "d", "e", "f", "g", "h", "i", "j", "k", "l", "m", "n", "o",
   "p", "q", "r", "s", "t", "u", "v", "w", "x", "y", "z"}
UpperCaseLetters == {"A", "B", "D", "F", "P", "R"}
Digits == {"0", "1", "2", "3", "4", "5", "6", "7", "8", "9"}

\* the character class [a-zA-Z0-9]
IsAlnum(c) == c \in LowerCaseLetters \cup UpperCaseLetters \cup Digits

ToLowerChar(c) ==
  CASE c = "A" -> "a" [] c = "B" -> "b" [] c = "D" -> "d" [] c = "F" -> "f"
    [] c = "P" -> "p" [] c = "R" -> "r" [] OTHER -> c

toLowerCase(s) == [i \in 1..Len(s) |-> ToLowerChar(s[i])]

(***************************************************************************)
(* Errors                                                                  *)
(***************************************************************************)
NoError == "none"
RecursionError == "recursion-limit"
ValidationError == "validation"
BlockLimitError == "block-limit"

(***************************************************************************)
(* Collaborators outside the parser: validation.ts and slack.ts            *)
(***************************************************************************)
\* validateUrl: http(s) absolute URLs, data: URLs and bare relative paths
validateUrl(url) ==
  /\ url # <<>>
  /\ \/ StartsWith(url, <<"h", "t", "t", "p", ":", "/", "/">>)
     \/ StartsWith(url, <<"h", "t", "t", "p", "s", ":", "/", "/">>)
     \/ StartsWith(url, <<"d", "a", "t", "a", ":">>)
     \/ FirstIndexOf(url, ":") = 0

\* validateRecursionDepth: TRUE when the depth is within the ceiling
validateRecursionDepth(depth) == depth <= MaxRecursionDepth

\* validateBlockCount: TRUE when the count is within the ceiling
validateBlockCount(count, max) == count <= max

safeTruncate(s, max) == IF Len(s) > max THEN SubSeq(s, 1, max) ELSE s

\* section(text): the text is truncated when the block is constructed
section(text) == [type |-> "section", text |-> safeTruncate(text, MAX_TEXT_LENGTH)]

header(text) == [type |-> "header", text |-> safeTruncate(text, MAX_HEADER_LENGTH)]

divider == [type |-> "divider"]

\* an image() that refuses only an empty URL
imageFailsEmpty(url) == url = <<>>

\* image(url, altText, title) fails on an empty or invalid URL
imageFails(url) == ~validateUrl(url)
image(url, altText, title) ==
  [type |-> "image", image_url |-> url, alt_text |-> altText, title |-> title]

\* file(externalId) fails on an empty identifier
fileFails(externalId) == externalId = <<>>
file(externalId) == [type |-> "file", external_id |-> externalId, source |-> "remote"]

richTextList(items, style, indent) ==
  [type |-> "rich_text",
   elements |-> <<[type |-> "rich_text_list", style |-> style,
                   indent |-> indent, elements |-> items]>>]

richTextCode(text) ==
  [type |-> "rich_text",
   elements |-> <<[type |-> "rich_text_preformatted",
                   elements |-> <<[type |-> "text", text |-> text]>>]>>]

richTextQuote(elements) ==
  [type |-> "rich_text",
   elements |-> <<[type |-> "rich_text_quote", elements |-> elements]>>]

\* table(rows, columnSettings); an absent settings argument is the empty list
table(rows, columnSettings) ==
  [type |-> "table", rows |-> rows, column_settings |-> columnSettings]

video(videoUrl, thumbnailUrl, title, altText) ==
  [type |-> "video", video_url |-> videoUrl, thumbnail_url |-> thumbnailUrl,
   title |-> title, alt_text |-> altText]

(***************************************************************************)
(* File-link classifier                                                    *)
(***************************************************************************)
FILE_EXTENSIONS ==
  {<<"p", "d", "f">>, <<"d", "o", "c">>, <<"d", "o", "c", "x">>,
   <<"x", "l", "s">>, <<"x", "l", "s", "x">>, <<"p", "p", "t">>,
   <<"p", "p", "t", "x">>, <<"z", "i", "p">>, <<"r", "a", "r">>,
   <<"7", "z">>, <<"t", "a", "r">>, <<"g", "z">>, <<"t", "x", "t">>,
   <<"c", "s", "v">>, <<"j", "s", "o", "n">>, <<"x", "m", "l">>,
   <<"j", "p", "g">>, <<"j", "p", "e", "g">>, <<"p", "n", "g">>,
   <<"g", "i", "f">>, <<"b", "m", "p">>, <<"s", "v", "g">>}

\* the part of href before the query string and the fragment
Pathname(href) == SplitFirst(SplitFirst(href, "?"), "#")

\* pathname.match(/\.([a-zA-Z0-9]+)$/): the text after the last dot, when it
\* is non-empty and alphanumeric; <<>> stands for null
NoExtension == <<>>
detectFileExtension(href) ==
  LET pathname == Pathname(href)
      dot == LastIndexOf(pathname, ".")
      ext == SubSeq(pathname, dot + 1, Len(pathname))
  IN IF dot > 0 /\ ext # <<>> /\ \A i \in 1..Len(ext) : IsAlnum(ext[i])
     THEN toLowerCase(ext)
     ELSE NoExtension

isFileType(extension) == extension # NoExtension /\ extension \in FILE_EXTENSIONS

Document == <<"D", "o", "c", "u", "m", "e", "n", "t">>

extractFileName(href) ==
  LET last == SplitLast(Pathname(href), "/")
  IN IF last = <<>> THEN Document ELSE last

(***************************************************************************)
(* Inline tokens (PhrasingToken) as the tokenizer hands them over          *)
(***************************************************************************)
\* the inlineText override of markdownToBlocks: & < > become entities
EscapeChar(c) ==
  CASE c = "&" -> <<"&", "a", "m", "p", ";">>
    [] c = "<" -> <<"&", "l", "t", ";">>
    [] c = ">" -> <<"&", "g", "t", ";">>
    [] OTHER -> <<c>>

\* marked's own inlineText, which the override replaces: the quote characters
\* become entities as well
EscapeCharAll(c) ==
  CASE c = "&" -> <<"&", "a", "m", "p", ";">>
    [] c = "<" -> <<"&", "l", "t", ";">>
    [] c = ">" -> <<"&", "g", "t", ";">>
    [] c = "'" -> <<"&", "#", "3", "9", ";">>
    [] OTHER -> <<c>>

inlineTextDefault(src) == Flatten([i \in 1..Len(src) |-> EscapeCharAll(src[i])])

inlineText(src) == Flatten([i \in 1..Len(src) |-> EscapeChar(src[i])])

\* the backtick character (the string syntax has no literal for it)
Backtick == "BACKTICK"

Inline(type, raw, text, href, title, tokens) ==
  [type |-> type, raw |-> raw, text |-> text, href |-> href, title |-> title,
   tokens |-> tokens]

\* the source text of a token sequence
RawOf(tokens) == Flatten([i \in 1..Len(tokens) |-> tokens[i].raw])

\* the tokenizer keeps, for a styled token, its source (raw) and the source
\* of its content (text)
Text(src) == Inline("text", src, inlineText(src), <<>>, <<>>, <<>>)
Em(tokens) ==
  Inline("em", <<"*">> \o RawOf(tokens) \o <<"*">>, RawOf(tokens), <<>>, <<>>, tokens)
Strong(tokens) ==
  Inline("strong", <<"*", "*">> \o RawOf(tokens) \o <<"*", "*">>, RawOf(tokens),
         <<>>, <<>>, tokens)
Del(tokens) ==
  Inline("del", <<"~", "~">> \o RawOf(tokens) \o <<"~", "~">>, RawOf(tokens),
         <<>>, <<>>, tokens)
Codespan(code) == Inline("codespan", <<Backtick>> \o code \o <<Backtick>>, code, <<>>, <<>>, <<>>)
Link(href, tokens) ==
  Inline("link", <<"[">> \o RawOf(tokens) \o <<"]", "(">> \o href \o <<")">>,
         RawOf(tokens), href, <<>>, tokens)
Image(href, text, title) ==
  Inline("image", <<"!", "[">> \o text \o <<"]", "(">> \o href \o <<")">>,
         text, href, title, <<>>)
\* a line break token has no text field
Br == Inline("br", <<"\n">>, <<>>, <<>>, <<>>, <<>>)
InlineHtml(raw) == Inline("html", raw, raw, <<>>, <<>>, <<>>)

(***************************************************************************)
(* The singleQuote tokenizer extension and the inline lexer's text loop    *)
(***************************************************************************)
Quote == "'"

\* start(src): src.indexOf("'"), 0-based, -1 when there is none
singleQuoteStart(src) == FirstIndexOf(src, Quote) - 1

\* tokenizer(src): the text token of a leading quote; <<>> stands for undefined
singleQuoteTokenizer(src) ==
  IF src # <<>> /\ src[1] = Quote
  THEN <<Inline("text", <<Quote>>, <<Quote>>, <<>>, <<>>, <<>>)>>
  ELSE <<>>

\* the source handed to inlineText: clipped where the extension starts
cutSrc(src) ==
  IF singleQuoteStart(Tail(src)) >= 0
  THEN SubSeq(src, 1, singleQuoteStart(Tail(src)) + 1)
  ELSE src

\* an inlineText token is merged into a text token that precedes it
pushText(out, token) ==
  IF out # <<>> /\ out[Len(out)].type = "text"
  THEN [out EXCEPT ![Len(out)] =
         [@ EXCEPT !.raw = @ \o token.raw, !.text = @ \o token.text]]
  ELSE Append(out, token)

RECURSIVE lexInline(_, _)
\* the inline tokens of a source without markup: the extension is tried
\* first, then inlineText on the clipped source
lexInline(src, out) ==
  IF src = <<>>
  THEN out
  ELSE IF singleQuoteTokenizer(src) # <<>>
       THEN lexInline(Tail(src), out \o singleQuoteTokenizer(src))
       ELSE lexInline(SubSeq(src, Len(cutSrc(src)) + 1, Len(src)),
                      pushText(out, Text(cutSrc(src))))

(***************************************************************************)
(* Plain-Text Extractor                                                    *)
(***************************************************************************)
RECURSIVE parsePlainText(_)
parsePlainText(element) ==
  CASE element.type \in {"link", "em", "strong", "del"} ->
         Flatten([i \in 1..Len(element.tokens) |-> parsePlainText(element.tokens[i])])
    [] element.type = "br" -> <<>>
    [] element.type = "image" ->
         IF element.title # <<>> THEN element.title ELSE element.href
    [] OTHER -> element.raw

\* tokens.flatMap(parsePlainText).join()
PlainTextOf(tokens) ==
  Flatten([i \in 1..Len(tokens) |-> parsePlainText(tokens[i])])

(***************************************************************************)
(* Phrase Renderer.  The shared counter recursionDepth is threaded through *)
(* the calls: a call takes the counter's value and returns the rendered    *)
(* text, the error it raised, the counter's value when it is left and the  *)
(* highest value the counter took (the deepest call nesting).              *)
(***************************************************************************)
Rendered(err, text, depth, peak) ==
  [err |-> err, text |-> text, depth |-> depth, peak |-> peak]

\* a renderer that forgets to count the call
enterMrkdwnUncounted(depth) == depth

\* recursionDepth++ on entry
enterMrkdwn(depth) == depth + 1

\* a renderer without the finally clause: the counter is never decremented
leaveMrkdwnForgotten(depth) == depth

\* recursionDepth-- in the finally clause
leaveMrkdwn(depth) == depth - 1

\* a renderer that returns the joined children without any markup
wrapMrkdwnBare(type, href, inner) == inner

\* the markup put around the joined children of a styled token
wrapMrkdwn(type, href, inner) ==
  CASE type = "link" ->
         IF href # <<>> /\ validateUrl(href)
         THEN <<"<">> \o href \o <<"|">> \o inner \o <<">", " ">>
         ELSE inner
    [] type = "em" -> <<"_">> \o inner \o <<"_">>
    [] type = "strong" -> <<"*">> \o inner \o <<"*">>
    [] type = "del" -> <<"~">> \o inner \o <<"~">>

RECURSIVE parseMrkdwn(_, _), joinMrkdwn(_, _)
\* element.tokens.flatMap(parseMrkdwn).join(): stops at the first throw
joinMrkdwn(tokens, depth) ==
  IF tokens = <<>>
  THEN Rendered(NoError, <<>>, depth, depth)
  ELSE LET joined(h, r) ==
             Rendered(r.err, h.text \o r.text, r.depth, Max(h.peak, r.peak))
           after(h) ==
             IF h.err # NoError
             THEN h
             ELSE joined(h, joinMrkdwn(Tail(tokens), h.depth))
       IN after(parseMrkdwn(Head(tokens), depth))

parseMrkdwn(element, depth) ==
  LET wrapped(entered, c) ==
        Rendered(c.err,
                 IF c.err = NoError
                 THEN wrapMrkdwn(element.type, element.href, c.text)
                 ELSE <<>>,
                 leaveMrkdwn(c.depth), Max(entered, c.peak))
      body(entered) ==
        IF ~validateRecursionDepth(entered)
        THEN Rendered(RecursionError, <<>>, leaveMrkdwn(entered), entered)
        ELSE CASE element.type \in {"link", "em", "strong", "del"} ->
                    wrapped(entered, joinMrkdwn(element.tokens, entered))
               [] element.type = "codespan" ->
                    Rendered(NoError, <<Backtick>> \o element.text \o <<Backtick>>,
                             leaveMrkdwn(entered), entered)
               [] element.type = "text" ->
                    Rendered(NoError, element.text, leaveMrkdwn(entered), entered)
               [] OTHER -> Rendered(NoError, <<>>, leaveMrkdwn(entered), entered)
  IN body(enterMrkdwn(depth))

(***************************************************************************)
(* Inline Accumulator                                                      *)
(***************************************************************************)
\* a test that takes a Section without text for no Section
isSectionBlockWithText(block) == block.type = "section" /\ block.text # <<>>

isSectionBlock(block) == block.type = "section"

\* an accumulator that pushes one Section per token
addMrkdwnPerToken(content, accumulator) == Append(accumulator, section(content))

\* addMrkdwn: append to a trailing Section (no truncation), else push one
addMrkdwn(content, accumulator) ==
  IF accumulator # <<>> /\ isSectionBlock(accumulator[Len(accumulator)])
  THEN [accumulator EXCEPT ![Len(accumulator)].text = @ \o content]
  ELSE Append(accumulator, section(content))

Accumulated(err, acc, depth, peak) ==
  [err |-> err, acc |-> acc, depth |-> depth, peak |-> peak]

\* render the token with the Phrase Renderer and merge the text
StyledText(element, accumulator, depth) ==
  LET merged(r) ==
        IF r.err # NoError
        THEN Accumulated(r.err, accumulator, r.depth, r.peak)
        ELSE Accumulated(NoError, addMrkdwn(r.text, accumulator), r.depth, r.peak)
  IN merged(parseMrkdwn(element, depth))

\* the extension that decides whether a link is a file: urlExtension || textExtension
fileExtensionOf(urlExtension, textExtension) ==
  IF urlExtension # NoExtension THEN urlExtension ELSE textExtension

\* a choice of the name that always takes the URL
fileNameOfUrl(textExtension, linkText, href) == extractFileName(href)

\* the name handed to file(): textExtension ? text name : URL name
fileNameOf(textExtension, linkText, href) ==
  IF textExtension # NoExtension
  THEN extractFileName(linkText)
  ELSE extractFileName(href)

parsePhrasingContent(element, accumulator, depth) ==
  CASE element.type = "image" ->
         LET alt == IF element.text # <<>> THEN element.text
                    ELSE IF element.title # <<>> THEN element.title
                    ELSE element.href
         IN IF imageFails(element.href)
            THEN Accumulated(NoError, accumulator, depth, depth)
            ELSE Accumulated(NoError,
                             Append(accumulator, image(element.href, alt, element.title)),
                             depth, depth)
    [] element.type = "link" ->
         LET linked(fileExtension, fileName) ==
               IF isFileType(fileExtension) /\ ~fileFails(fileName)
               THEN Accumulated(NoError, Append(accumulator, file(fileName)),
                                depth, depth)
               ELSE StyledText(element, accumulator, depth)
             named(linkText, urlExtension, textExtension) ==
               linked(fileExtensionOf(urlExtension, textExtension),
                      fileNameOf(textExtension, linkText, element.href))
             texted(linkText) ==
               named(linkText, detectFileExtension(element.href),
                     detectFileExtension(linkText))
         IN texted(PlainTextOf(element.tokens))
    [] OTHER -> StyledText(element, accumulator, depth)

RECURSIVE parseParagraphFrom(_, _, _)
\* element.tokens.reduce(parsePhrasingContent, []) from an accumulator on
parseParagraphFrom(tokens, accumulator, depth) ==
  IF tokens = <<>>
  THEN Accumulated(NoError, accumulator, depth, depth)
  ELSE LET reduced(h, r) == Accumulated(r.err, r.acc, r.depth, Max(h.peak, r.peak))
           after(h) ==
             IF h.err # NoError
             THEN h
             ELSE reduced(h, parseParagraphFrom(Tail(tokens), h.acc, h.depth))
       IN after(parsePhrasingContent(Head(tokens), accumulator, depth))

parseParagraph(element, depth) == parseParagraphFrom(element.tokens, <<>>, depth)

(***************************************************************************)
(* Rich-Element Converter                                                  *)
(***************************************************************************)
RichElement(type, text, style, url) ==
  [type |-> type, text |-> text, style |-> style, url |-> url]

\* token.tokens.map(t => t.text || '').join()
FirstLevelText(tokens) == Flatten([i \in 1..Len(tokens) |-> tokens[i].text])

\* the elements one token contributes
richElementsOf(token) ==
  CASE token.type = "text" -> <<RichElement("text", token.text, "none", <<>>)>>
    [] token.type = "strong" ->
         <<RichElement("text", FirstLevelText(token.tokens), "bold", <<>>)>>
    [] token.type = "em" ->
         <<RichElement("text", FirstLevelText(token.tokens), "italic", <<>>)>>
    [] token.type = "del" ->
         <<RichElement("text", FirstLevelText(token.tokens), "strike", <<>>)>>
    [] token.type = "codespan" -> <<RichElement("text", token.text, "code", <<>>)>>
    [] token.type = "link" ->
         IF validateUrl(token.href)
         THEN <<RichElement("link", FirstLevelText(token.tokens), "none", token.href)>>
         ELSE <<RichElement("text", FirstLevelText(token.tokens), "none", <<>>)>>
    [] token.type = "image" ->
         <<RichElement("text",
                       IF token.text # <<>> THEN token.text
                       ELSE IF token.title # <<>> THEN token.title
                       ELSE <<"[", "i", "m", "a", "g", "e", "]">>,
                       "none", <<>>)>>
    [] token.type = "br" -> <<>>
    [] OTHER -> <<RichElement("text", token.text, "none", <<>>)>>

tokensToRichTextElements(tokens) ==
  Flatten([i \in 1..Len(tokens) |-> richElementsOf(tokens[i])])

(***************************************************************************)
(* Block tokens                                                            *)
(***************************************************************************)
Heading(tokens) == [type |-> "heading", tokens |-> tokens]
\* a heading token with its level (depth)
HeadingAt(depth, tokens) == [type |-> "heading", depth |-> depth, tokens |-> tokens]
Paragraph(tokens) == [type |-> "paragraph", tokens |-> tokens]
BlockText(text, tokens) == [type |-> "text", text |-> text, tokens |-> tokens]
Code(text) == [type |-> "code", text |-> text]
Blockquote(tokens) == [type |-> "blockquote", tokens |-> tokens]
ListItem(task, checked, tokens) ==
  [task |-> task, checked |-> checked, tokens |-> tokens]
List(ordered, items) == [type |-> "list", ordered |-> ordered, items |-> items]
Cell(tokens) == [tokens |-> tokens]
Table(head, rows, align) ==
  [type |-> "table", header |-> head, rows |-> rows, align |-> align]
Hr == [type |-> "hr"]
Space == [type |-> "space"]
\* an embedded-markup island carries what the XML parser makes of its source
Html(res) == [type |-> "html", res |-> res]
\* an island given by its top-level tags
Island(tags, res) == [type |-> "html", res |-> res, tags |-> tags]

(***************************************************************************)
(* Heading, code and list builders                                         *)
(***************************************************************************)
\* a heading builder that renders its children with the Phrase Renderer
parseHeadingRendered(element) == header(joinMrkdwn(element.tokens, 0).text)

parseHeading(element) == header(PlainTextOf(element.tokens))

parseCode(element) == richTextCode(element.text)

DefaultOptions == "default"
CustomOptions == "custom"

\* the two default glyphs, each one character
CheckMark == "CHECK_MARK"
BallotBox == "BALLOT_BOX"

defaultCheckboxPrefix(checked) ==
  IF checked THEN <<CheckMark, " ">> ELSE <<BallotBox, " ">>
customCheckboxPrefix(checked) ==
  IF checked THEN <<"[", "x", "]", " ">> ELSE <<"[", " ", "]", " ">>

\* options.checkboxPrefix || defaultCheckboxPrefix
checkboxPrefix(options, checked) ==
  IF options = CustomOptions
  THEN customCheckboxPrefix(checked)
  ELSE defaultCheckboxPrefix(checked)

\* the elements one child token of a list item contributes
itemTokenElements(token) ==
  CASE token.type \in {"text", "paragraph"} -> tokensToRichTextElements(token.tokens)
    [] token.type = "code" ->
         <<RichElement("text", <<"\n">> \o token.text \o <<"\n">>, "code", <<>>)>>
    [] OTHER -> <<>>

parseListItem(item, options) ==
  LET prefix == IF item.task
                THEN <<RichElement("text", checkboxPrefix(options, item.checked),
                                   "none", <<>>)>>
                ELSE <<>>
  IN [type |-> "rich_text_section",
      elements |-> prefix \o
        Flatten([i \in 1..Len(item.tokens) |-> itemTokenElements(item.tokens[i])])]

\* a list builder that ignores the ordered mark
parseListBulleted(element, options, indent) ==
  richTextList([i \in 1..Len(element.items) |-> parseListItem(element.items[i], options)],
               "bullet", indent)

parseList(element, options, indent) ==
  richTextList([i \in 1..Len(element.items) |-> parseListItem(element.items[i], options)],
               IF element.ordered THEN "ordered" ELSE "bullet", indent)

(***************************************************************************)
(* Table Builder (markup form)                                             *)
(***************************************************************************)
ComplexTypes == {"strong", "em", "del", "link", "codespan"}

parseTableCellToBlock(cell) ==
  IF \E i \in 1..Len(cell.tokens) : cell.tokens[i].type \in ComplexTypes
  THEN [type |-> "rich_text",
        elements |-> <<[type |-> "rich_text_section",
                        elements |-> tokensToRichTextElements(cell.tokens)]>>]
  ELSE [type |-> "raw_text", text |-> FirstLevelText(cell.tokens)]

\* a row builder that chooses the representation per row: one formatted cell
\* makes every cell of its row rich-text-typed
parseTableRowUniform(row) ==
  [i \in 1..Len(row) |->
     IF \E j \in 1..Len(row) :
          \E k \in 1..Len(row[j].tokens) : row[j].tokens[k].type \in ComplexTypes
     THEN [type |-> "rich_text",
           elements |-> <<[type |-> "rich_text_section",
                           elements |-> tokensToRichTextElements(row[i].tokens)]>>]
     ELSE parseTableCellToBlock(row[i])]

parseTableRow(row) == [i \in 1..Len(row) |-> parseTableCellToBlock(row[i])]

\* a column setting; the empty object {} has no alignment
NoAlign == "none"
Setting(align) == [align |-> align]
EmptySetting == Setting(NoAlign)

\* one turn of the loop over align: the settings list after column i (1-based)
columnSettingsStep(columnSettings, a) ==
  IF a # NoAlign /\ a # "left"
  THEN Append(columnSettings, Setting(a))
  ELSE IF Len(columnSettings) > 0
       THEN Append(columnSettings, EmptySetting)
       ELSE columnSettings

RECURSIVE columnSettingsUpTo(_, _)
\* for (i = 0; i < align.length && i < 20; i++), after n turns
columnSettingsUpTo(align, n) ==
  IF n = 0
  THEN <<>>
  ELSE columnSettingsStep(columnSettingsUpTo(align, n - 1), align[n])

columnSettingsOf(align) ==
  columnSettingsUpTo(align, Min(Len(align), MAX_COLUMN_SETTINGS))

parseTableRowsToBlocks(head, rows, align) ==
  [tableRows |-> <<parseTableRow(head)>> \o [i \in 1..Len(rows) |-> parseTableRow(rows[i])],
   columnSettings |-> columnSettingsOf(align)]

parseTable(element) ==
  LET r == parseTableRowsToBlocks(element.header, element.rows, element.align)
  IN table(r.tableRows, r.columnSettings)

(***************************************************************************)
(* Table Builder (embedded-markup form).  columnSettings is a JavaScript   *)
(* array written by index: an index never written is a hole.               *)
(***************************************************************************)
Hole == Setting("hole")

\* columnSettings[index] = value, index 1-based here
SetAt(columnSettings, index, value) ==
  [i \in 1..Max(Len(columnSettings), index) |->
     IF i = index THEN value
     ELSE IF i <= Len(columnSettings) THEN columnSettings[i]
     ELSE Hole]

\* !columnSettings[index]
Unset(columnSettings, index) ==
  index > Len(columnSettings) \/ columnSettings[index] = Hole

\* the align attribute, lower-cased; "" when the attribute is absent
AlignLower(a) ==
  CASE a = "CENTER" -> "center" [] a = "Right" -> "right" [] OTHER -> a

\* a col, th or td with its align attribute at the given index
alignAt(columnSettings, index, a, overwrite) ==
  IF a # "" /\ (overwrite \/ Unset(columnSettings, index))
     /\ AlignLower(a) \in {"center", "right"}
  THEN SetAt(columnSettings, index, Setting(AlignLower(a)))
  ELSE columnSettings

RECURSIVE alignCells(_, _, _, _)
\* cells.forEach((cell, index) => ...) from index n down to 1
alignCells(columnSettings, cells, n, overwrite) ==
  IF n = 0
  THEN columnSettings
  ELSE alignAt(alignCells(columnSettings, cells, n - 1, overwrite), n,
               cells[n].align, overwrite)

RECURSIVE alignRows(_, _, _)
alignRows(columnSettings, rows, n) ==
  IF n = 0
  THEN columnSettings
  ELSE alignCells(alignRows(columnSettings, rows, n - 1), rows[n], Len(rows[n]), FALSE)

\* Array.prototype.filter and some visit only the indices that were written
keepSetting(columnSettings, i) ==
  /\ columnSettings[i] # Hole
  /\ \/ columnSettings[i].align # NoAlign
     \/ \E j \in (i + 1)..Len(columnSettings) :
          columnSettings[j] # Hole /\ columnSettings[j].align # NoAlign

RECURSIVE cleanedFrom(_, _)
cleanedFrom(columnSettings, i) ==
  IF i > Len(columnSettings)
  THEN <<>>
  ELSE (IF keepSetting(columnSettings, i) THEN <<columnSettings[i]>> ELSE <<>>)
       \o cleanedFrom(columnSettings, i + 1)

cleanedSettings(columnSettings) == cleanedFrom(columnSettings, 1)

HtmlCell(align, text) == [align |-> align, text |-> text]
HtmlTable(col, thead, tr) == [col |-> col, thead |-> thead, tr |-> tr]

htmlRawRow(cells) == [i \in 1..Len(cells) |-> [type |-> "raw_text", text |-> cells[i].text]]

\* the column settings handed to table() for an embedded-markup table
htmlColumnSettings(tableElement) ==
  LET fromCols == alignCells(<<>>, [i \in 1..Len(tableElement.col) |->
                                      HtmlCell(tableElement.col[i], <<>>)],
                             Len(tableElement.col), TRUE)
      fromHead == alignCells(fromCols, tableElement.thead, Len(tableElement.thead), FALSE)
      fromBody == alignRows(fromHead, tableElement.tr, Len(tableElement.tr))
  IN cleanedSettings(fromBody)

\* the rows of the table: the header row, then the body rows that have cells
htmlRows(tableElement) ==
  (IF tableElement.thead # <<>> THEN <<htmlRawRow(tableElement.thead)>> ELSE <<>>)
  \o Flatten([i \in 1..Len(tableElement.tr) |->
                IF tableElement.tr[i] # <<>>
                THEN <<htmlRawRow(tableElement.tr[i])>>
                ELSE <<>>])

\* parseHtmlTable: <<>> stands for null (no rows)
parseHtmlTable(tableElement) ==
  IF htmlRows(tableElement) # <<>>
  THEN <<table(htmlRows(tableElement), htmlColumnSettings(tableElement))>>
  ELSE <<>>

(***************************************************************************)
(* Embedded-Markup Extractor                                               *)
(***************************************************************************)
\* what the XML parser returns for an island: failed when parse() throws,
\* else the table tags, the img tags and the video tags; several tables are
\* an array, which has none of the members parseHtmlTable reads
Parsed(failed, tbl, img, vid) ==
  [failed |-> failed, table |-> tbl, img |-> img, video |-> vid]
ImgTag(src, alt) == [src |-> src, alt |-> alt]
VideoTag(src, poster, title, alt) ==
  [src |-> src, poster |-> poster, title |-> title, alt |-> alt]

\* a top-level tag of an island, in source position
Tag(family, el) == [family |-> family, el |-> el]

\* the elements of one tag family, in source order
familyOf(tags, family) ==
  LET chosen(sel) == [k \in 1..Len(sel) |-> sel[k].el]
  IN chosen(SelectSeq(tags, LAMBDA t : t.family = family))

\* parser.parse(element.raw): the tags grouped by name, each group in source order
XMLParse(tags) ==
  Parsed(FALSE, familyOf(tags, "table"), familyOf(tags, "img"), familyOf(tags, "video"))

htmlImage(img) ==
  IF ~validateUrl(img.src)
  THEN <<>>
  ELSE <<image(img.src, IF img.alt # <<>> THEN img.alt ELSE img.src, <<>>)>>

htmlVideo(vid) ==
  LET title == IF vid.title # <<>> THEN vid.title ELSE <<"V", "i", "d", "e", "o">>
      altText == IF vid.alt # <<>> THEN vid.alt ELSE title
  IN IF vid.src = <<>> \/ ~validateUrl(vid.src)
     THEN <<>>
     ELSE IF vid.poster # <<>> /\ ~validateUrl(vid.poster)
          THEN <<>>
          ELSE <<video(vid.src, IF vid.poster # <<>> THEN vid.poster ELSE vid.src,
                       title, altText)>>

\* a parseHTML that handles the videos before the images
parseHTMLVideosFirst(element) ==
  LET res == element.res
  IN IF res.failed
     THEN <<>>
     ELSE (IF Len(res.table) = 1 THEN parseHtmlTable(res.table[1]) ELSE <<>>)
          \o Flatten([i \in 1..Len(res.video) |-> htmlVideo(res.video[i])])
          \o Flatten([i \in 1..Len(res.img) |-> htmlImage(res.img[i])])

\* a parseHTML whose catch shows a notice in place of the island
parseHTMLEchoed(element) ==
  LET res == element.res
  IN IF res.failed
     THEN <<section(<<"?">>)>>
     ELSE (IF Len(res.table) = 1 THEN parseHtmlTable(res.table[1]) ELSE <<>>)
          \o Flatten([i \in 1..Len(res.img) |-> htmlImage(res.img[i])])
          \o Flatten([i \in 1..Len(res.video) |-> htmlVideo(res.video[i])])

parseHTML(element) ==
  LET res == element.res
  IN IF res.failed
     THEN <<>>
     ELSE (IF Len(res.table) = 1 THEN parseHtmlTable(res.table[1]) ELSE <<>>)
          \o Flatten([i \in 1..Len(res.img) |-> htmlImage(res.img[i])])
          \o Flatten([i \in 1..Len(res.video) |-> htmlVideo(res.video[i])])

(***************************************************************************)
(* Quote Builder                                                           *)
(***************************************************************************)
Built(err, blocks, depth, peak) ==
  [err |-> err, blocks |-> blocks, depth |-> depth, peak |-> peak]

\* text.replace(/\n/g, '\n> ')
quoteNewlines(text) ==
  Flatten([i \in 1..Len(text) |->
             IF text[i] = "\n" THEN <<"\n", ">", " ">> ELSE <<text[i]>>])

\* a post-processing that prefixes the first line only
quoteBlockFirstLine(block) ==
  IF block.type = "section" /\ block.text # <<>>
  THEN [block EXCEPT !.text = <<">", " ">> \o @]
  ELSE block

\* a post-processing that marks the text of every block that has one
quoteBlockAnyText(block) ==
  IF block.type \in {"section", "header"} /\ block.text # <<>>
  THEN [block EXCEPT !.text = <<">", " ">> \o quoteNewlines(@)]
  ELSE block

\* the post-processing of one block on the complex path
quoteBlock(block) ==
  IF block.type = "section" /\ block.text # <<>>
  THEN [block EXCEPT !.text = <<">", " ">> \o quoteNewlines(@)]
  ELSE block

\* every child token is a paragraph or bare text
onlyParagraphs(element) ==
  \A i \in 1..Len(element.tokens) : element.tokens[i].type \in {"paragraph", "text"}

RECURSIVE trialParse(_, _)
\* the trial parse of the paragraphs of a blockquote
trialParse(tokens, depth) ==
  IF tokens = <<>>
  THEN Built(NoError, <<>>, depth, depth)
  ELSE LET pushed(h, r) ==
             Built(r.err, h.acc \o r.blocks, r.depth, Max(h.peak, r.peak))
           after(h) ==
             IF h.err # NoError
             THEN Built(h.err, <<>>, h.depth, h.peak)
             ELSE pushed(h, trialParse(Tail(tokens), h.depth))
       IN after(IF Head(tokens).type = "paragraph"
                THEN parseParagraph(Head(tokens), depth)
                ELSE Accumulated(NoError, <<>>, depth, depth))

\* a check of the trial parse that looks at the first block only
hasFileBlocksFirst(testBlocks) == testBlocks # <<>> /\ testBlocks[1].type = "file"

hasFileBlocks(testBlocks) == \E i \in 1..Len(testBlocks) : testBlocks[i].type = "file"

\* the quote elements one child contributes on the simple path
quoteElementsOf(tokens, i) ==
  LET token == tokens[i]
  IN IF token.type = "paragraph"
     THEN IF token.tokens # <<>>
          THEN tokensToRichTextElements(token.tokens)
               \o (IF i < Len(tokens)
                   THEN <<RichElement("text", <<"\n">>, "none", <<>>)>>
                   ELSE <<>>)
          ELSE <<>>
     ELSE IF token.tokens # <<>>
          THEN tokensToRichTextElements(token.tokens)
          ELSE <<RichElement("text", token.text, "none", <<>>)>>

\* a simple path that returns a quote block even without elements
simpleQuoteUnguarded(element) ==
  <<richTextQuote(Flatten([i \in 1..Len(element.tokens) |->
                             quoteElementsOf(element.tokens, i)]))>>

simpleQuote(element) ==
  LET guarded(quoteElements) ==
        IF Len(quoteElements) > 0 THEN <<richTextQuote(quoteElements)>> ELSE <<>>
  IN guarded(Flatten([i \in 1..Len(element.tokens) |->
                        quoteElementsOf(element.tokens, i)]))

RECURSIVE parseBlockquote(_, _), quoteChildren(_, _)
\* element.tokens.flatMap(...) of the complex path
quoteChildren(tokens, depth) ==
  IF tokens = <<>>
  THEN Built(NoError, <<>>, depth, depth)
  ELSE LET paragraphBlocks(p) == Built(p.err, p.acc, p.depth, p.peak)
           child(token) ==
             CASE token.type = "paragraph" ->
                    paragraphBlocks(parseParagraph(token, depth))
               [] token.type = "list" ->
                    Built(NoError, <<parseList(token, DefaultOptions, 0)>>, depth, depth)
               [] token.type = "code" ->
                    Built(NoError, <<parseCode(token)>>, depth, depth)
               [] token.type = "blockquote" -> parseBlockquote(token, depth)
               [] token.type = "heading" ->
                    Built(NoError, <<parseHeading(token)>>, depth, depth)
               [] token.type = "html" ->
                    Built(NoError, parseHTML(token), depth, depth)
               [] OTHER -> Built(NoError, <<>>, depth, depth)
           flat(h, r) ==
             Built(r.err, h.blocks \o r.blocks, r.depth, Max(h.peak, r.peak))
           after(h) ==
             IF h.err # NoError
             THEN Built(h.err, <<>>, h.depth, h.peak)
             ELSE flat(h, quoteChildren(Tail(tokens), h.depth))
       IN after(child(Head(tokens)))

complexQuote(element, depth) ==
  LET quoted(c) ==
        Built(c.err,
              IF c.err = NoError
              THEN [i \in 1..Len(c.blocks) |-> quoteBlock(c.blocks[i])]
              ELSE <<>>,
              c.depth, c.peak)
  IN quoted(quoteChildren(element.tokens, depth))

parseBlockquote(element, depth) ==
  IF onlyParagraphs(element)
  THEN LET complex(t, c) == Built(c.err, c.blocks, c.depth, Max(t.peak, c.peak))
           tried(t) ==
             IF t.err # NoError
             THEN Built(t.err, <<>>, t.depth, t.peak)
             ELSE IF hasFileBlocks(t.blocks)
                  THEN complex(t, complexQuote(element, t.depth))
                  ELSE Built(NoError, simpleQuote(element), t.depth, t.peak)
       IN tried(trialParse(element.tokens, depth))
  ELSE complexQuote(element, depth)

\* the path a blockquote takes: "simple", "complex" or "error" (trial parse threw)
quotePath(element, depth) ==
  IF onlyParagraphs(element)
  THEN LET tried(t) ==
             IF t.err # NoError THEN "error"
             ELSE IF hasFileBlocks(t.blocks) THEN "complex" ELSE "simple"
       IN tried(trialParse(element.tokens, depth))
  ELSE "complex"

(***************************************************************************)
(* Token Router                                                            *)
(***************************************************************************)
\* a router whose heading case renders the children with the Phrase Renderer
parseTokenRendering(token, options, depth) ==
  CASE token.type = "heading" ->
         LET headed(p) ==
               Built(p.err, IF p.err = NoError THEN <<parseHeading(token)>> ELSE <<>>,
                     p.depth, p.peak)
         IN headed(parseParagraphFrom(token.tokens, <<>>, depth))
    [] token.type = "paragraph" ->
         LET paragraphBlocks(p) ==
               Built(p.err, IF p.err = NoError THEN p.acc ELSE <<>>, p.depth, p.peak)
         IN paragraphBlocks(parseParagraph(token, depth))
    [] token.type = "code" -> Built(NoError, <<parseCode(token)>>, depth, depth)
    [] token.type = "blockquote" -> parseBlockquote(token, depth)
    [] token.type = "list" -> Built(NoError, <<parseList(token, options, 0)>>, depth, depth)
    [] token.type = "table" -> Built(NoError, <<parseTable(token)>>, depth, depth)
    [] token.type = "hr" -> Built(NoError, <<divider>>, depth, depth)
    [] token.type = "html" -> Built(NoError, parseHTML(token), depth, depth)
    [] OTHER -> Built(NoError, <<>>, depth, depth)

parseToken(token, options, depth) ==
  CASE token.type = "heading" -> Built(NoError, <<parseHeading(token)>>, depth, depth)
    [] token.type = "paragraph" ->
         LET paragraphBlocks(p) ==
               Built(p.err, IF p.err = NoError THEN p.acc ELSE <<>>, p.depth, p.peak)
         IN paragraphBlocks(parseParagraph(token, depth))
    [] token.type = "code" -> Built(NoError, <<parseCode(token)>>, depth, depth)
    [] token.type = "blockquote" -> parseBlockquote(token, depth)
    [] token.type = "list" -> Built(NoError, <<parseList(token, options, 0)>>, depth, depth)
    [] token.type = "table" -> Built(NoError, <<parseTable(token)>>, depth, depth)
    [] token.type = "hr" -> Built(NoError, <<divider>>, depth, depth)
    [] token.type = "html" -> Built(NoError, parseHTML(token), depth, depth)
    [] OTHER -> Built(NoError, <<>>, depth, depth)

(***************************************************************************)
(* Input documents: the token trees the tokenizer can hand to parseBlocks  *)
(***************************************************************************)
SeqsUpTo(S, n) == UNION {[1..k -> S] : k \in 0..n}
NonEmptySeqsUpTo(S, n) == UNION {[1..k -> S] : k \in 1..n}

sA == <<"a">>
sB == <<"b">>
sLines == <<"a", "\n", "b">>
sEscaped == <<"a", "&", "<", "'">>
sPdfName == <<"r", ".", "p", "d", "f">>
sUpperName == <<"d", "/", "R", ".", "P", "D", "F">>
sVersion == <<"v", "1", ".", "0">>
sHtmlName == <<"p", ".", "h", "t", "m", "l">>
\* a name that is nothing but the extension, behind a path
sBareExtension == <<"a", "/", ".", "p", "d", "f">>

hPdf == <<"h", "t", "t", "p", ":", "/", "/", "e", "/", "f", "/", "x", ".", "p", "d", "f">>
hPdfQuery ==
  <<"h", "t", "t", "p", ":", "/", "/", "e", "/", "X", ".", "P", "D", "F", "?", "q",
    "=", "a", ".", "b", "#", "p">>
hHtml == <<"h", "t", "t", "p", ":", "/", "/", "e", "/", "p", ".", "h", "t", "m", "l">>
hSite == <<"h", "t", "t", "p", "s", ":", "/", "/", "e", ".", "c", "o", "m">>
hPlain == <<"h", "t", "t", "p", ":", "/", "/", "e", "/", "p">>
hRelative == <<".", "/", "f", "/", "d", ".", "z", "i", "p">>
hInvalid == <<"j", "s", ":", "x">>
hInvalidPdf == <<"j", "s", ":", "x", ".", "p", "d", "f">>
\* a URL whose last path segment is empty
hDir == <<"h", "t", "t", "p", ":", "/", "/", "e", "/">>

hExample ==
  <<"h", "t", "t", "p", "s", ":", "/", "/", "e", "x", "a", "m", "p", "l", "e", ".",
    "c", "o", "m">>

\* marked.lexer("**a ~b~** c[*d*](https://example.com)")
BasicMarkdown ==
  Paragraph(<<Strong(<<Text(<<"a", " ">>), Del(<<Text(sB)>>)>>), Text(<<" ", "c">>),
              Link(hExample, <<Em(<<Text(<<"d">>)>>)>>)>>)

Hrefs ==
  {hPdf, hPdfQuery, hHtml, hSite, hPlain, hRelative, hInvalid, hInvalidPdf, hDir}

LinkTexts ==
  {<<Text(sA)>>, <<Text(sPdfName)>>, <<Text(sVersion)>>, <<Text(sHtmlName)>>,
   <<Em(<<Text(sUpperName)>>)>>, <<Text(sA), Strong(<<Text(sPdfName)>>)>>,
   <<Text(sBareExtension)>>}

Links == {Link(h, t) : h \in Hrefs, t \in LinkTexts}

RECURSIVE NestEm(_, _)
\* n emphasis tokens nested in one another around the given content
NestEm(n, content) == IF n = 0 THEN content ELSE <<Em(NestEm(n - 1, content))>>

\* chains of nested emphasis, with a text leaf and without one
Chains ==
  {NestEm(n, c)[1] : n \in 1..(MaxRecursionDepth + 1), c \in {<<Text(sA)>>, <<>>}}

\* the alphabet of the paragraphs that exercise the merge rule
MergeTokens ==
  {Text(sA), Text(sLines), Em(<<Text(sB)>>), Strong(<<Text(sA), Del(<<Text(sB)>>)>>),
   Link(hPdf, <<Text(sA)>>), Link(hPlain, <<Text(sA)>>), Image(hPlain, sA, <<>>), Br}

OtherInline ==
  {Text(sEscaped), Codespan(sA), InlineHtml(<<"<", "i", ">">>),
   Image(hInvalid, sA, <<>>), Image(hSite, <<>>, sB), Del(<<Text(sA)>>),
   Text(<<>>)}

\* texts at and around the Section ceiling
LongText(n) == Text(Rep("x", n))

LongParagraphs ==
  {Paragraph(<<LongText(MAX_TEXT_LENGTH + 1)>>),
   Paragraph(<<LongText(MAX_TEXT_LENGTH)>>),
   Paragraph(<<LongText(MAX_TEXT_LENGTH - 1), Em(<<Text(sB)>>)>>),
   Paragraph(<<LongText(MAX_TEXT_LENGTH + 1), Strong(<<Text(sA)>>)>>),
   Paragraph(<<Text(sA), Em(<<LongText(MAX_TEXT_LENGTH)>>)>>)}

sIll == <<"I", "'", "l", "l">>
sQuoted == <<"'", "a", "&", "b", "'">>
sTags == <<"<", "a", ">", "'", "&">>
sEntity == <<"&", "l", "t", ";", "'", "'">>

\* sources without markup, with quotes and with the escaped characters
PlainSources == {sIll, sQuoted, sTags, sEntity, sEscaped, sA, <<Quote>>}

\* marked.lexer("I'll ...") and the like
LexedParagraphs == {Paragraph(lexInline(s, <<>>)) : s \in PlainSources}

\* images whose Image block cannot be built
BrokenImages == {Image(hInvalid, sA, <<>>), Image(<<>>, sA, sB)}

\* paragraphs with such an image before, between and after other tokens
BrokenImageParagraphs ==
  {Paragraph(<<a, i, b>>) : a \in MergeTokens, i \in BrokenImages,
                            b \in {Text(sB), Image(hPlain, sA, <<>>)}}
  \cup {Paragraph(<<i, j, Text(sB)>>) : i \in BrokenImages, j \in BrokenImages}
  \cup {Paragraph(<<Text(sA), i>>) : i \in BrokenImages}

Paragraphs ==
  {Paragraph(ts) : ts \in NonEmptySeqsUpTo(MergeTokens, MaxInline)}
  \cup {Paragraph(<<t>>) : t \in Links \cup Chains \cup OtherInline}
  \cup {Paragraph(<<Text(sA), t>>) : t \in Chains}
  \cup LongParagraphs
  \cup {BasicMarkdown}
  \cup LexedParagraphs
  \cup BrokenImageParagraphs

\* marked.lexer("- a\n  - a b\n    - v1.0\n- b"): the nested list is a child token
\* of the item, after the text of the item
NestedList ==
  List(FALSE,
       <<ListItem(FALSE, FALSE,
                  <<BlockText(sA, <<Text(sA)>>),
                    List(FALSE,
                         <<ListItem(FALSE, FALSE,
                                    <<BlockText(sLines, <<Text(sLines)>>),
                                      List(FALSE,
                                           <<ListItem(FALSE, FALSE,
                                                      <<BlockText(sVersion,
                                                                  <<Text(sVersion)>>)>>)>>)>>)>>)>>),
         ListItem(FALSE, FALSE, <<BlockText(sB, <<Text(sB)>>)>>)>>)

\* content nested one level beyond the recursion ceiling
DeepInline == NestEm(MaxRecursionDepth + 1, <<Text(sA)>>)

\* a list and a table whose content is nested beyond the ceiling
DeepList ==
  List(FALSE, <<ListItem(TRUE, FALSE, <<BlockText(sA, DeepInline)>>),
                ListItem(FALSE, FALSE, <<Paragraph(DeepInline)>>)>>)

DeepTable ==
  Table(<<Cell(DeepInline), Cell(<<Text(sA)>>)>>,
        <<<<Cell(<<Text(sB)>>), Cell(<<Link(hSite, DeepInline)>>)>>>>,
        <<NoAlign, "right">>)

Lists ==
  {List(o, <<ListItem(t, c, <<BlockText(sA, <<Text(sA)>>)>>),
             ListItem(FALSE, FALSE, <<Paragraph(<<Strong(<<Text(sB)>>)>>), Code(sA)>>)>>)
     : o \in BOOLEAN, t \in BOOLEAN, c \in BOOLEAN}
  \cup {List(o, [i \in 1..n |-> ListItem(i = 2, i = 2, <<BlockText(sA, <<Text(sA)>>)>>)])
          : o \in BOOLEAN, n \in 1..MaxItems}
  \cup {NestedList, DeepList}

Aligns == {"left", "center", "right", NoAlign}

TableOf(align) ==
  Table([i \in 1..Len(align) |-> Cell(<<Text(sA)>>)],
        <<[i \in 1..Len(align) |-> Cell(IF i = 1 THEN <<Strong(<<Text(sB)>>)>>
                                        ELSE <<Text(sB)>>)]>>,
        align)

\* a table wider than the column-settings ceiling
WideAlign ==
  [i \in 1..(MAX_COLUMN_SETTINGS + 1) |->
     IF i = MAX_COLUMN_SETTINGS - 1 THEN "center"
     ELSE IF i > MAX_COLUMN_SETTINGS THEN "right"
     ELSE NoAlign]

\* what a table cell can hold
CellContents ==
  {<<Text(sA)>>, <<Strong(<<Text(sB)>>)>>, <<Text(sA), Em(<<Text(sB)>>)>>,
   <<Codespan(sA)>>, <<Link(hSite, <<Text(sA)>>)>>, <<Del(<<Text(sB)>>)>>,
   <<Image(hPlain, sA, <<>>)>>, <<Text(sEscaped), Br, Text(sB)>>, <<>>}

\* the 3-row/3-column table with **bold** in one cell
BoldCellTable ==
  Table([c \in 1..3 |-> Cell(<<Text(sA)>>)],
        [r \in 1..2 |-> [c \in 1..3 |->
           Cell(IF r = 1 /\ c = 2 THEN <<Strong(<<Text(sB)>>)>> ELSE <<Text(sB)>>)]],
        <<NoAlign, NoAlign, NoAlign>>)

Tables ==
  {TableOf(a) : a \in NonEmptySeqsUpTo(Aligns, MaxColumns) \cup {WideAlign}}
  \cup {Table(<<Cell(h), Cell(<<Text(sA)>>)>>, <<<<Cell(x), Cell(y)>>>>,
               <<NoAlign, NoAlign>>)
          : h \in {<<Text(sA)>>, <<Em(<<Text(sB)>>)>>}, x \in CellContents,
            y \in CellContents}
  \cup {BoldCellTable, DeepTable}

AlignAttrs == {"", "left", "center", "Right", "CENTER"}

HtmlTables ==
  {HtmlTable(<<>>, <<>>, <<[i \in 1..Len(a) |-> HtmlCell(a[i], sA)]>>)
     : a \in NonEmptySeqsUpTo(AlignAttrs, MaxColumns)}
  \cup {HtmlTable(c, <<HtmlCell("", sA), HtmlCell(h, sB)>>,
                  <<<<HtmlCell("", sA), HtmlCell(d, sB)>>>>)
          : c \in SeqsUpTo({"", "right"}, 2), h \in {"", "center"}, d \in {"", "right"}}
  \cup {HtmlTable(<<"center">>, <<>>, <<>>)}

\* the top-level tags an island is made of
IslandTags ==
  {Tag("table", HtmlTable(<<>>, <<>>, <<<<HtmlCell("", sA)>>>>)),
   Tag("img", ImgTag(hSite, sA)), Tag("img", ImgTag(hPlain, <<>>)),
   Tag("img", ImgTag(hInvalid, sA)),
   Tag("video", VideoTag(hSite, <<>>, <<>>, <<>>)),
   Tag("video", VideoTag(hPlain, hSite, sA, sB))}

\* islands of up to MaxTags tags in every source order
Islands == {Island(ts, XMLParse(ts)) : ts \in NonEmptySeqsUpTo(IslandTags, MaxTags)}

Htmls ==
  {Html(Parsed(FALSE, <<t>>, <<>>, <<>>)) : t \in HtmlTables}
  \cup {Html(Parsed(TRUE, <<>>, <<>>, <<>>)),
        Html(Parsed(FALSE, <<>>, <<ImgTag(hSite, sA), ImgTag(hInvalid, sA)>>, <<>>)),
        Html(Parsed(FALSE, <<HtmlTable(<<>>, <<>>, <<<<HtmlCell("", sA)>>>>)>>,
                    <<ImgTag(hPlain, <<>>)>>,
                    <<VideoTag(hSite, <<>>, <<>>, <<>>), VideoTag(hInvalid, <<>>, sA, sA),
                      VideoTag(hSite, hInvalid, sA, sA)>>))}
  \cup Islands

InnerQuotes ==
  {Blockquote(<<Paragraph(<<Text(sLines)>>)>>),
   Blockquote(<<Paragraph(<<Text(sLines)>>), Code(sA)>>),
   Blockquote(<<Paragraph(<<Link(hPdf, <<Text(sA)>>), Text(sB)>>)>>)}

QuoteChildren ==
  {Paragraph(<<Text(sA)>>), Paragraph(<<Text(sLines), Em(<<Text(sB)>>)>>),
   Paragraph(<<Link(hPdf, <<Text(sA)>>)>>), Paragraph(<<Text(sB), Link(hSite, <<Text(sPdfName)>>)>>),
   Paragraph(<<Br>>), Paragraph(<<>>), Paragraph(<<Image(hPlain, sA, <<>>), Text(sA)>>),
   Paragraph(<<InlineHtml(<<"<", "i", ">">>)>>),
   Paragraph(<<NestEm(MaxRecursionDepth, <<Text(sA)>>)[1]>>),
   BlockText(sB, <<>>), BlockText(sB, <<Text(sB)>>),
   List(FALSE, <<ListItem(TRUE, TRUE, <<BlockText(sA, <<Text(sA)>>)>>)>>),
   List(TRUE, <<ListItem(TRUE, FALSE, <<BlockText(sA, <<Text(sA)>>)>>),
                ListItem(FALSE, FALSE, <<BlockText(sB, <<Text(sB)>>)>>)>>),
   Code(sLines), Heading(<<Text(sA)>>), Heading(DeepInline), Space, Hr,
   Html(Parsed(FALSE, <<>>, <<ImgTag(hSite, sA)>>, <<>>))}
  \cup InnerQuotes

Blockquotes ==
  {Blockquote(ts) : ts \in SeqsUpTo(QuoteChildren, MaxQuoteChildren)}

Headings ==
  {Heading(<<Text(sEscaped)>>),
   Heading(<<Strong(<<Text(sA)>>), Br, Codespan(sB), Link(hSite, <<Em(<<Text(sA)>>)>>)>>),
   Heading(<<NestEm(MaxRecursionDepth + 1, <<Text(sA)>>)[1]>>),
   Heading(<<Del(<<Text(sB)>>), LongText(MAX_HEADER_LENGTH)>>),
   Heading(<<LongText(MAX_HEADER_LENGTH)>>)}
  \cup {HeadingAt(d, <<Text(sA), Em(<<Text(sB)>>)>>) : d \in 1..6}

BlockTokens ==
  Paragraphs \cup Lists \cup Tables \cup Htmls \cup Blockquotes \cup Headings
  \cup {Code(sLines), Hr, Space}

\* documents of several tokens, for the order of the output
MixedTokens ==
  {Paragraph(<<Text(sA), Em(<<Text(sB)>>)>>), Heading(<<Text(sA)>>), Hr, Space,
   Paragraph(<<NestEm(MaxRecursionDepth, <<Text(sA)>>)[1]>>),
   Html(Parsed(TRUE, <<>>, <<>>, <<>>)),
   Blockquote(<<Paragraph(<<Text(sA)>>)>>)}

\* documents at and beyond the block ceiling
LongDocuments ==
  {[i \in 1..n |-> IF i = 1 THEN first ELSE Hr]
     : n \in (MAX_BLOCKS - 1)..(MAX_BLOCKS + MaxOverflow),
       first \in {Hr, Space, Paragraph(<<Image(hPlain, sA, <<>>), Text(sA)>>)}}

Documents ==
  {<<t>> : t \in BlockTokens}
  \cup NonEmptySeqsUpTo(MixedTokens, MaxTokens)
  \cup LongDocuments

(***************************************************************************)
(* markdownToBlocks as a state machine: one step per top-level token of    *)
(* parseBlocks, then the block-count validation and the return.            *)
(***************************************************************************)
VARIABLES
  tokens,          \* the token list lexer.lex(body) returned
  options,         \* the ParsingOptions of the call
  pos,             \* index of the next top-level token parseBlocks visits
  produced,        \* produced[i]: the block list parseToken returned for token i
  blocks,          \* the flattened output list
  recursionDepth,  \* the module-level counter of the Phrase Renderer
  peak,            \* highest value the counter has taken
  pc,              \* "parsing", "returned" or "thrown"
  err,             \* the error the call raised
  calls,           \* the overlapping invocations that render through the counter
  build            \* one paragraph or blockquote builder followed step by step

vars ==
  <<tokens, options, pos, produced, blocks, recursionDepth, peak, pc, err, calls,
    build>>

Init ==
  /\ tokens \in Documents
  /\ options \in {DefaultOptions, CustomOptions}
  /\ pos = 1
  /\ produced = <<>>
  /\ blocks = <<>>
  /\ recursionDepth = 0
  /\ peak = 0
  /\ pc = "parsing"
  /\ err = NoError
  /\ calls = <<>>
  /\ build = <<>>

\* a parseBlocks that puts the blocks of a token in front of the earlier ones
RoutePrepending(kinds) ==
  /\ pc = "parsing"
  /\ pos <= Len(tokens)
  /\ tokens[pos].type \in kinds
  /\ LET visited(r) ==
           /\ recursionDepth' = r.depth
           /\ peak' = Max(peak, r.peak)
           /\ IF r.err = NoError
              THEN /\ produced' = Append(produced, r.blocks)
                   /\ blocks' = r.blocks \o blocks
                   /\ pos' = pos + 1
                   /\ UNCHANGED <<pc, err>>
              ELSE /\ pc' = "thrown"
                   /\ err' = r.err
                   /\ UNCHANGED <<produced, blocks, pos>>
     IN visited(parseToken(tokens[pos], options, recursionDepth))
  /\ UNCHANGED <<tokens, options, calls, build>>

\* parseBlocks visits the token at pos, a token of one of the given kinds
Route(kinds) ==
  /\ pc = "parsing"
  /\ pos <= Len(tokens)
  /\ tokens[pos].type \in kinds
  /\ LET visited(r) ==
           /\ recursionDepth' = r.depth
           /\ peak' = Max(peak, r.peak)
           /\ IF r.err = NoError
              THEN /\ produced' = Append(produced, r.blocks)
                   /\ blocks' = blocks \o r.blocks
                   /\ pos' = pos + 1
                   /\ UNCHANGED <<pc, err>>
              ELSE /\ pc' = "thrown"
                   /\ err' = r.err
                   /\ UNCHANGED <<produced, blocks, pos>>
     IN visited(parseToken(tokens[pos], options, recursionDepth))
  /\ UNCHANGED <<tokens, options, calls, build>>

RouteHeading == Route({"heading"})
RouteParagraph == Route({"paragraph"})
RouteCode == Route({"code"})
RouteBlockquote == Route({"blockquote"})
RouteList == Route({"list"})
RouteTable == Route({"table"})
RouteThematicBreak == Route({"hr"})
RouteHTML == Route({"html"})
RouteDefault == Route({"space"})

\* an entry point that returns the list without the block-count check
ReturnUnvalidated ==
  /\ pc = "parsing"
  /\ pos > Len(tokens)
  /\ pc' = "returned"
  /\ err' = NoError
  /\ UNCHANGED <<tokens, options, pos, produced, blocks, recursionDepth, peak, calls,
                 build>>

\* validateBlockCount(blocks.length, MAX_BLOCKS); return blocks
ValidateAndReturn ==
  /\ pc = "parsing"
  /\ pos > Len(tokens)
  /\ IF validateBlockCount(Len(blocks), MAX_BLOCKS)
     THEN pc' = "returned" /\ err' = NoError
     ELSE pc' = "thrown" /\ err' = BlockLimitError
  /\ UNCHANGED <<tokens, options, pos, produced, blocks, recursionDepth, peak, calls,
                 build>>

Next ==
  \/ RouteHeading
  \/ RouteParagraph
  \/ RouteCode
  \/ RouteBlockquote
  \/ RouteList
  \/ RouteTable
  \/ RouteThematicBreak
  \/ RouteHTML
  \/ RouteDefault
  \/ ValidateAndReturn

Spec == Init /\ [][Next]_vars

(***************************************************************************)
(* Overlapping invocations.  recursionDepth is one module-level variable,  *)
(* so every invocation of the same module instance increments, checks and  *)
(* decrements the same counter.  Each invocation renders one chain of      *)
(* nested tokens, one step per entry into and exit from parseMrkdwn.       *)
(***************************************************************************)
Invocations == 1..MaxInvocations

\* an invocation: the token it renders, the parseMrkdwn frames on its stack,
\* the counter value its guard checked last and its own nesting at that check
Call(root) ==
  [root |-> root, stack |-> <<>>, status |-> "rendering", checked |-> 0, nesting |-> 0]

\* the element the next parseMrkdwn call of the invocation is about
nextElement(call) ==
  IF call.stack = <<>>
  THEN call.root
  ELSE call.stack[Len(call.stack)].tokens[1]

\* the element recurses into child tokens
hasChildren(element) ==
  element.type \in {"link", "em", "strong", "del"} /\ element.tokens # <<>>

InitShared ==
  /\ calls \in [Invocations -> {Call(c) : c \in Chains}]
  /\ recursionDepth = 0
  /\ peak = 0
  /\ tokens = <<>>
  /\ options = DefaultOptions
  /\ pos = 1
  /\ produced = <<>>
  /\ blocks = <<>>
  /\ pc = "parsing"
  /\ err = NoError
  /\ build = <<>>

\* recursionDepth++; validateRecursionDepth(recursionDepth)
EnterMrkdwn(i) ==
  /\ calls[i].status = "rendering"
  /\ LET entering(element, entered) ==
           /\ recursionDepth' = entered
           /\ peak' = Max(peak, entered)
           /\ calls' = [calls EXCEPT ![i] =
                          [root |-> @.root,
                           stack |-> Append(@.stack, element),
                           status |-> IF ~validateRecursionDepth(entered)
                                      THEN "unwinding"
                                      ELSE IF hasChildren(element)
                                           THEN "rendering"
                                           ELSE "leaving",
                           checked |-> entered,
                           nesting |-> Len(@.stack) + 1]]
     IN entering(nextElement(calls[i]), enterMrkdwn(recursionDepth))
  /\ UNCHANGED <<tokens, options, pos, produced, blocks, pc, err, build>>

\* finally { recursionDepth-- }, on return and on throw
LeaveMrkdwn(i) ==
  /\ calls[i].status \in {"leaving", "unwinding"}
  /\ calls[i].stack # <<>>
  /\ recursionDepth' = leaveMrkdwn(recursionDepth)
  /\ calls' = [calls EXCEPT ![i] =
                 [@ EXCEPT !.stack = SubSeq(@, 1, Len(@) - 1),
                           !.status = IF Len(calls[i].stack) > 1 THEN @
                                      ELSE IF @ = "unwinding" THEN "thrown"
                                      ELSE "returned"]]
  /\ UNCHANGED <<tokens, options, pos, produced, blocks, peak, pc, err, build>>

NextShared ==
  \/ \E i \in Invocations : EnterMrkdwn(i)
  \/ \E i \in Invocations : LeaveMrkdwn(i)

SpecShared == InitShared /\ [][NextShared]_vars

(***************************************************************************)
(* One builder followed step by step: parseParagraph, one step per inline  *)
(* token of its reduce, or parseBlockquote, from its classification over   *)
(* the dispatch of each child token to the formatting of the Sections.     *)
(***************************************************************************)
\* the builder at its entry: out is the list it will return, acc the
\* accumulator of the parseParagraph call in progress, origin[k] the child
\* token that out[k] came from (0: the construct itself)
Builder(element) ==
  [element |-> element,
   path |-> IF element.type = "blockquote" THEN "unclassified" ELSE "none",
   status |-> IF element.type = "blockquote" THEN "classifying" ELSE "accumulating",
   child |-> 0, inner |-> 1, acc |-> <<>>, out |-> <<>>, origin |-> <<>>,
   err |-> NoError]

\* the paragraph whose inline tokens are being accumulated
currentParagraph ==
  IF build.element.type = "paragraph"
  THEN build.element
  ELSE build.element.tokens[build.child]

InitBuild ==
  /\ build \in {Builder(e) : e \in Paragraphs \cup Blockquotes}
  /\ recursionDepth = 0
  /\ peak = 0
  /\ tokens = <<>>
  /\ options = DefaultOptions
  /\ pos = 1
  /\ produced = <<>>
  /\ blocks = <<>>
  /\ pc = "parsing"
  /\ err = NoError
  /\ calls = <<>>

\* onlyParagraphs, the trial parse and hasFileBlocks: the path is chosen
ClassifyQuote ==
  /\ build.status = "classifying"
  /\ IF onlyParagraphs(build.element)
     THEN LET tried(t) ==
                /\ recursionDepth' = t.depth
                /\ peak' = Max(peak, t.peak)
                /\ build' =
                     IF t.err # NoError
                     THEN [build EXCEPT !.status = "thrown", !.err = t.err]
                     ELSE IF hasFileBlocks(t.blocks)
                          THEN [build EXCEPT !.path = "complex",
                                             !.status = "dispatching", !.child = 1]
                          ELSE [build EXCEPT !.path = "simple",
                                             !.status = "collapsing"]
          IN tried(trialParse(build.element.tokens, recursionDepth))
     ELSE /\ build' = [build EXCEPT !.path = "complex", !.status = "dispatching",
                                    !.child = 1]
          /\ UNCHANGED <<recursionDepth, peak>>
  /\ UNCHANGED <<tokens, options, pos, produced, blocks, pc, err, calls>>

\* the simple path: return [richTextQuote(quoteElements)] or []
CollapseQuote ==
  /\ build.status = "collapsing"
  /\ build' = [build EXCEPT !.out = simpleQuote(build.element),
                            !.origin = [k \in 1..Len(simpleQuote(build.element)) |-> 0],
                            !.status = "returned"]
  /\ UNCHANGED <<tokens, options, pos, produced, blocks, recursionDepth, peak, pc, err,
                 calls>>

\* the complex path visits the next child token: a paragraph starts a
\* parseParagraph call, any other child contributes its blocks at once
DispatchChild ==
  /\ build.status = "dispatching"
  /\ build.child <= Len(build.element.tokens)
  /\ IF build.element.tokens[build.child].type = "paragraph"
     THEN /\ build' = [build EXCEPT !.status = "accumulating", !.inner = 1,
                                    !.acc = <<>>]
          /\ UNCHANGED <<recursionDepth, peak>>
     ELSE LET visited(r) ==
                /\ recursionDepth' = r.depth
                /\ peak' = Max(peak, r.peak)
                /\ build' =
                     IF r.err # NoError
                     THEN [build EXCEPT !.status = "thrown", !.err = r.err]
                     ELSE [build EXCEPT
                             !.out = @ \o r.blocks,
                             !.origin = @ \o [k \in 1..Len(r.blocks) |-> build.child],
                             !.child = @ + 1]
          IN visited(quoteChildren(<<build.element.tokens[build.child]>>,
                                   recursionDepth))
  /\ UNCHANGED <<tokens, options, pos, produced, blocks, pc, err, calls>>

\* one round of the reduce of parseParagraph: parsePhrasingContent(child, accumulator)
AccumulateInline ==
  /\ build.status = "accumulating"
  /\ build.inner <= Len(currentParagraph.tokens)
  /\ LET reduced(r) ==
           /\ recursionDepth' = r.depth
           /\ peak' = Max(peak, r.peak)
           /\ build' =
                IF r.err # NoError
                THEN [build EXCEPT !.status = "thrown", !.err = r.err]
                ELSE [build EXCEPT !.acc = r.acc, !.inner = @ + 1]
     IN reduced(parsePhrasingContent(currentParagraph.tokens[build.inner],
                                     build.acc, recursionDepth))
  /\ UNCHANGED <<tokens, options, pos, produced, blocks, pc, err, calls>>

\* parseParagraph returns its accumulator, to the caller of the builder or
\* to the flatMap of the complex path
ReturnParagraph ==
  /\ build.status = "accumulating"
  /\ build.inner > Len(currentParagraph.tokens)
  /\ build' =
       IF build.element.type = "paragraph"
       THEN [build EXCEPT !.out = build.acc,
                          !.origin = [k \in 1..Len(build.acc) |-> 0],
                          !.acc = <<>>, !.status = "returned"]
       ELSE [build EXCEPT !.out = @ \o build.acc,
                          !.origin = @ \o [k \in 1..Len(build.acc) |-> build.child],
                          !.acc = <<>>, !.child = @ + 1, !.status = "dispatching"]
  /\ UNCHANGED <<tokens, options, pos, produced, blocks, recursionDepth, peak, pc, err,
                 calls>>

\* blocks.map(...): the text of each Section is rewritten in place
FormatSections ==
  /\ build.status = "dispatching"
  /\ build.child > Len(build.element.tokens)
  /\ build' = [build EXCEPT !.out = [k \in 1..Len(@) |-> quoteBlock(@[k])],
                            !.status = "returned"]
  /\ UNCHANGED <<tokens, options, pos, produced, blocks, recursionDepth, peak, pc, err,
                 calls>>

NextBuild ==
  \/ ClassifyQuote
  \/ CollapseQuote
  \/ DispatchChild
  \/ AccumulateInline
  \/ ReturnParagraph
  \/ FormatSections

SpecBuild == InitBuild /\ [][NextBuild]_vars

(***************************************************************************)
(* Properties                                                              *)
(***************************************************************************)
\* the top-level tokens parseBlocks has converted so far
Converted == 1..Len(produced)

\* the call threw while converting the token at pos
ThrewAt(kind) ==
  pc = "thrown" /\ pos <= Len(tokens) /\ tokens[pos].type = kind

StartsQuoted(text) == StartsWith(text, <<">", " ">>)

NewlinesQuoted(text) ==
  \A k \in 1..Len(text) :
    text[k] = "\n" => k + 2 <= Len(text) /\ text[k + 1] = ">" /\ text[k + 2] = " "

CountOfType(bs, type) == Cardinality({k \in 1..Len(bs) : bs[k].type = type})

\* a non-empty paragraph of plain-text, emphasis and strong tokens only
IsPlainParagraph(token) ==
  /\ token.type = "paragraph"
  /\ token.tokens # <<>>
  /\ \A k \in 1..Len(token.tokens) : token.tokens[k].type \in {"text", "em", "strong"}

\* the Phrase Renderer output of each token, concatenated in token order
RenderedConcat(ts) == Flatten([k \in 1..Len(ts) |-> parseMrkdwn(ts[k], 0).text])

\* C1 (as stated): every non-empty paragraph of plain-text, emphasis and
\* strong tokens is converted, and into exactly one Section whose text is the
\* concatenation of the rendering of its tokens.
C1_OneSectionConcat ==
  /\ \A i \in Converted :
       IsPlainParagraph(tokens[i]) =>
         produced[i] = <<[type |-> "section", text |-> RenderedConcat(tokens[i].tokens)]>>
  /\ ~(ThrewAt("paragraph") /\ IsPlainParagraph(tokens[pos]))

\* C1 (amended): a non-empty paragraph of plain-text, emphasis and strong
\* tokens either raises a recursion-limit error or yields exactly one Section,
\* never one per token; the Section's text is the concatenation of the
\* rendering of the tokens whenever that concatenation fits the Section
\* ceiling.
C1_OneSectionMerged ==
  /\ \A i \in Converted :
       IsPlainParagraph(tokens[i]) =>
         /\ Len(produced[i]) = 1
         /\ produced[i][1].type = "section"
         /\ Len(RenderedConcat(tokens[i].tokens)) <= MAX_TEXT_LENGTH =>
              produced[i][1].text = RenderedConcat(tokens[i].tokens)
  /\ (ThrewAt("paragraph") /\ IsPlainParagraph(tokens[pos])) => err = RecursionError

\* C1 witness: a paragraph of three plain or styled tokens was merged
C1_Witness ==
  \E i \in Converted :
    /\ IsPlainParagraph(tokens[i])
    /\ Len(tokens[i].tokens) = 3
    /\ \E k \in 1..3 : tokens[i].tokens[k].type = "strong"
    /\ Len(produced[i]) = 1

\* C2 (as stated): every Section of the returned list has a text of at most
\* 3000 characters.
C2_SectionWithinCeiling ==
  pc = "returned" =>
    \A i \in 1..Len(blocks) :
      blocks[i].type = "section" => Len(blocks[i].text) <= MAX_TEXT_LENGTH

\* C3: a returned list has at most 50 blocks; once every token is converted
\* the call either returns such a list or raises the block-limit error, and
\* the error is raised only then and only for a longer list.
C3_BlockCeiling ==
  /\ pc = "returned" =>
       /\ Len(blocks) <= MAX_BLOCKS
       /\ Len(produced) = Len(tokens)
  /\ err = BlockLimitError =>
       /\ pc = "thrown"
       /\ Len(produced) = Len(tokens)
       /\ Len(blocks) > MAX_BLOCKS
  /\ (pc = "thrown" /\ pos > Len(tokens)) => err = BlockLimitError

\* C3 witness: a document of more than 50 blocks was refused
C3_Witness ==
  /\ pc = "thrown"
  /\ err = BlockLimitError
  /\ Len(blocks) = MAX_BLOCKS + 1

\* the link ends, in its URL path or in its display text, in an allow-listed extension
EndsInFileExtension(link) ==
  \/ isFileType(detectFileExtension(link.href))
  \/ isFileType(detectFileExtension(PlainTextOf(link.tokens)))

\* a converted paragraph made of one link token
IsLinkParagraph(token) ==
  /\ token.type = "paragraph"
  /\ Len(token.tokens) = 1
  /\ token.tokens[1].type = "link"

\* C4 (as stated): a link whose URL path or display text ends in an
\* allow-listed extension becomes a File block, any other link a Section and
\* no File block.
C4_FileIffExtension ==
  \A i \in Converted :
    IsLinkParagraph(tokens[i]) =>
      IF EndsInFileExtension(tokens[i].tokens[1])
      THEN CountOfType(produced[i], "file") = 1
      ELSE /\ CountOfType(produced[i], "file") = 0
           /\ CountOfType(produced[i], "section") = 1

\* C5 (as stated): the File identifier comes from the link text only if the
\* text ends in an allow-listed extension, else from the last URL path segment.
C5_FileNameSource ==
  \A i \in Converted :
    (IsLinkParagraph(tokens[i]) /\ CountOfType(produced[i], "file") = 1) =>
      LET link == tokens[i].tokens[1]
          linkText == PlainTextOf(link.tokens)
      IN produced[i][1].external_id =
           IF isFileType(detectFileExtension(linkText))
           THEN extractFileName(linkText)
           ELSE extractFileName(link.href)

\* C6 (as stated): the column settings of a markup table are index-preserving:
\* a center or right column below the ceiling has its alignment at its own
\* index, and every default column before it is an empty placeholder there.
C6_IndexPreserving ==
  \A i \in Converted :
    tokens[i].type = "table" =>
      LET A == tokens[i].align
          S == produced[i][1].column_settings
      IN \A j \in 1..Min(Len(A), MAX_COLUMN_SETTINGS) :
           A[j] \in {"center", "right"} =>
             /\ j <= Len(S)
             /\ S[j] = Setting(A[j])
             /\ \A m \in 1..(j - 1) :
                  A[m] \notin {"center", "right"} => S[m] = EmptySetting

\* some col, th or td of column j carries the alignment a
HasAlignAt(t, j, a) ==
  \/ j <= Len(t.col) /\ AlignLower(t.col[j]) = a
  \/ j <= Len(t.thead) /\ AlignLower(t.thead[j].align) = a
  \/ \E r \in 1..Len(t.tr) : j <= Len(t.tr[r]) /\ AlignLower(t.tr[r][j].align) = a

HtmlColumns(t) ==
  1..Max(Len(t.col), Max(Len(t.thead),
         IF t.tr = <<>> THEN 0 ELSE Len(t.tr[1])))

\* C7 (as stated): the column settings of an embedded-markup table are
\* positionally sparse: an aligned column has its setting at its own index,
\* default columns before it are empty placeholders, trailing ones are pruned.
C7_HtmlPositional ==
  \A i \in Converted :
    (tokens[i].type = "html" /\ ~tokens[i].res.failed /\ tokens[i].res.table # <<>>
       /\ CountOfType(produced[i], "table") = 1) =>
      LET t == tokens[i].res.table[1]
          S == produced[i][1].column_settings
      IN /\ \A j \in HtmlColumns(t) :
              (\E a \in {"center", "right"} : HasAlignAt(t, j, a)) =>
                /\ j <= Len(S)
                /\ S[j].align \in {"center", "right"}
                /\ HasAlignAt(t, j, S[j].align)
         /\ \A j \in 1..Len(S) :
              IF \E a \in {"center", "right"} : HasAlignAt(t, j, a)
              THEN HasAlignAt(t, j, S[j].align)
              ELSE S[j] = EmptySetting
         /\ S # <<>> => S[Len(S)] # EmptySetting

\* some child of the blockquote has inline content other than line breaks,
\* or is bare text without inline tokens
HasQuoteContent(q) ==
  \E i \in 1..Len(q.tokens) :
    \/ \E k \in 1..Len(q.tokens[i].tokens) : q.tokens[i].tokens[k].type # "br"
    \/ (q.tokens[i].type = "text" /\ q.tokens[i].tokens = <<>>)

IsQuoteBlock(block) ==
  /\ block.type = "rich_text"
  /\ Len(block.elements) = 1
  /\ block.elements[1].type = "rich_text_quote"

\* every child is a paragraph or bare text and no paragraph has a file link
IsSimpleQuote(token) ==
  /\ token.type = "blockquote"
  /\ onlyParagraphs(token)
  /\ \A i \in 1..Len(token.tokens) :
       token.tokens[i].type = "paragraph" =>
         \A k \in 1..Len(token.tokens[i].tokens) :
           LET t == token.tokens[i].tokens[k]
           IN t.type = "link" => ~EndsInFileExtension(t)

\* C8 (as stated): a blockquote of paragraphs (or bare text) without a
\* file-triggering link yields exactly one block, a rich-text-quote block.
C8_ExactlyOneQuote ==
  /\ \A i \in Converted :
       IsSimpleQuote(tokens[i]) =>
         Len(produced[i]) = 1 /\ IsQuoteBlock(produced[i][1])
  /\ ~(ThrewAt("blockquote") /\ IsSimpleQuote(tokens[pos]))

\* C8 (amended): such a blockquote yields at most one block and never a
\* block of another kind than rich-text-quote: exactly one rich-text-quote
\* block when some child has inline content other than line breaks, and no
\* block at all when the blockquote has no child; the only other outcome is
\* a recursion-limit error raised by the trial parse of its paragraphs.
C8_OneQuoteOrNone ==
  /\ \A i \in Converted :
       IsSimpleQuote(tokens[i]) =>
         /\ Len(produced[i]) <= 1
         /\ Len(produced[i]) = 1 => IsQuoteBlock(produced[i][1])
         /\ HasQuoteContent(tokens[i]) => Len(produced[i]) = 1
         /\ tokens[i].tokens = <<>> => produced[i] = <<>>
  /\ (ThrewAt("blockquote") /\ IsSimpleQuote(tokens[pos])) => err = RecursionError

\* C8 witness: a quote of two paragraphs collapsed to one quote block
C8_Witness ==
  \E i \in Converted :
    /\ IsSimpleQuote(tokens[i])
    /\ Len(tokens[i].tokens) = 2
    /\ \A k \in 1..2 : tokens[i].tokens[k].type = "paragraph"
    /\ Len(produced[i]) = 1
    /\ IsQuoteBlock(produced[i][1])

\* the blockquote was handled on the complex path
IsComplexQuote(token) ==
  token.type = "blockquote" /\ quotePath(token, 0) = "complex"

\* C9 (as stated): on the complex path every Section's text starts with "> "
\* and every newline in it is followed by "> ".
C9_EverySectionQuoted ==
  \A i \in Converted :
    IsComplexQuote(tokens[i]) =>
      \A k \in 1..Len(produced[i]) :
        produced[i][k].type = "section" =>
          /\ StartsQuoted(produced[i][k].text)
          /\ NewlinesQuoted(produced[i][k].text)

\* C9 (amended): on the complex path every Section with a non-empty text
\* starts with "> " and every newline in it is followed by "> "; a Section
\* with an empty text and the blocks of every other kind are the blocks the
\* children produced, unchanged.
C9_NonEmptySectionQuoted ==
  \A i \in Converted :
    IsComplexQuote(tokens[i]) =>
      LET quotedFrom(before) ==
            /\ Len(produced[i]) = Len(before)
            /\ \A k \in 1..Len(produced[i]) :
                 IF before[k].type = "section" /\ before[k].text # <<>>
                 THEN /\ produced[i][k].type = "section"
                      /\ StartsQuoted(produced[i][k].text)
                      /\ NewlinesQuoted(produced[i][k].text)
                      /\ Len(produced[i][k].text) >= Len(before[k].text) + 2
                 ELSE produced[i][k] = before[k]
      IN quotedFrom(quoteChildren(tokens[i].tokens, 0).blocks)

\* C9 witness: a complex quote with a two-line Section and a block of another kind
C9_Witness ==
  \E i \in Converted :
    /\ IsComplexQuote(tokens[i])
    /\ \E k \in 1..Len(produced[i]) :
         /\ produced[i][k].type = "section"
         /\ \E c \in 1..Len(produced[i][k].text) : produced[i][k].text[c] = "\n"
    /\ \E k \in 1..Len(produced[i]) : produced[i][k].type = "rich_text"

RECURSIVE EmChainLength(_)
\* the number of emphasis tokens nested in one another, from the token down
EmChainLength(token) ==
  IF token.type = "em"
  THEN 1 + (IF Len(token.tokens) = 1 THEN EmChainLength(token.tokens[1]) ELSE 0)
  ELSE 0

RECURSIVE IsEmChain(_)
\* a chain of emphasis tokens that ends in one text token or in nothing
IsEmChain(token) ==
  \/ token.type = "em" /\ token.tokens = <<>>
  \/ token.type = "em" /\ Len(token.tokens) = 1
       /\ (token.tokens[1].type = "text" \/ IsEmChain(token.tokens[1]))

RECURSIVE ChainCalls(_)
\* the Phrase Renderer calls nested in one another when the chain is rendered
ChainCalls(token) ==
  IF token.type = "em"
  THEN 1 + (IF Len(token.tokens) = 1 THEN ChainCalls(token.tokens[1]) ELSE 0)
  ELSE 1

IsChainParagraph(token) ==
  /\ token.type = "paragraph"
  /\ Len(token.tokens) = 1
  /\ IsEmChain(token.tokens[1])

\* C10 (as stated): a chain of n nested emphasis tokens renders when n equals
\* the ceiling and raises a recursion-limit error when n exceeds it.
C10_ChainAtCeilingRenders ==
  \A i \in 1..Len(tokens) :
    IsChainParagraph(tokens[i]) =>
      LET n == EmChainLength(tokens[i].tokens[1])
      IN /\ n = MaxRecursionDepth => ~(pc = "thrown" /\ pos = i)
         /\ n > MaxRecursionDepth => i \notin Converted

\* C10 (amended): the ceiling bounds the nested Phrase Renderer calls, and the
\* text leaf of a chain is a call too: a chain of n emphasis tokens around a
\* text leaf renders when n + 1 is at most the ceiling and raises a
\* recursion-limit error when n + 1 exceeds it (so n equal to the ceiling
\* raises); a chain without a leaf renders when n is at most the ceiling.  The
\* error comes from the depth guard: the calls never nest deeper than the
\* ceiling plus one.
C10_DepthGuard ==
  /\ peak <= MaxRecursionDepth + 1
  /\ \A i \in Converted :
       IsChainParagraph(tokens[i]) =>
         ChainCalls(tokens[i].tokens[1]) <= MaxRecursionDepth
  /\ \A i \in 1..Len(tokens) :
       (IsChainParagraph(tokens[i]) /\ pos = i /\ pc = "thrown") =>
         /\ err = RecursionError
         /\ ChainCalls(tokens[i].tokens[1]) > MaxRecursionDepth
         /\ peak = MaxRecursionDepth + 1

\* C10 witness: a chain of exactly ceiling-many emphasis tokens around a text
\* leaf raised the recursion-limit error
C10_Witness ==
  /\ ThrewAt("paragraph")
  /\ err = RecursionError
  /\ IsChainParagraph(tokens[pos])
  /\ EmChainLength(tokens[pos].tokens[1]) = MaxRecursionDepth
  /\ peak = MaxRecursionDepth + 1

\* the depths a Phrase Renderer call can start from
EntryDepths == 0..(MaxRecursionDepth + 1)

\* C11: the counter is restored by every Phrase Renderer call: it is 0 (and so
\* never negative) whenever parseBlocks is between two top-level tokens, has
\* returned or has thrown, and a call of parseMrkdwn on any inline token of
\* the document, from any depth, hands the counter back at the depth it
\* started from, whether it returns or raises, without ever taking it below.
C11_CounterRestored ==
  /\ recursionDepth = 0
  /\ \A i \in 1..Len(tokens) :
       tokens[i].type = "paragraph" =>
         \A k \in 1..Len(tokens[i].tokens) :
           tokens[i].tokens[k].type # "image" =>
             \A d \in EntryDepths :
               LET restored(r) == r.depth = d /\ r.peak = Max(r.peak, d + 1)
               IN restored(parseMrkdwn(tokens[i].tokens[k], d))

\* C11 witness: a paragraph raised the recursion-limit error from the deepest
\* call, and the counter is back at 0
C11_Witness ==
  /\ ThrewAt("paragraph")
  /\ err = RecursionError
  /\ peak > MaxRecursionDepth
  /\ recursionDepth = 0
  /\ \E k \in 1..Len(tokens[pos].tokens) :
       tokens[pos].tokens[k].type = "em"

\* the invocation raises the recursion-limit error when it runs alone
RaisesAlone(call) == parseMrkdwn(call.root, 0).err = RecursionError

KnownKinds ==
  {"heading", "paragraph", "code", "blockquote", "list", "table", "hr", "html"}

\* C13: the output is the concatenation, in document order, of what parseToken
\* returns for each top-level token: the blocks of an earlier token precede
\* those of a later one, and a token of a kind without a case contributes an
\* empty list and raises no error.
C13_DocumentOrder ==
  /\ blocks = Flatten(produced)
  /\ pc = "returned" => Len(produced) = Len(tokens)
  /\ \A i \in Converted :
       LET routed(r) == r.err = NoError /\ produced[i] = r.blocks
       IN routed(parseToken(tokens[i], options, 0))
  /\ \A i \in Converted : tokens[i].type \notin KnownKinds => produced[i] = <<>>
  /\ \A i \in 1..Len(tokens) :
       tokens[i].type \notin KnownKinds => ~(pc = "thrown" /\ pos = i)

\* C13 witness: a heading, a token of an unknown kind and a paragraph were
\* converted to a Header followed by a Section
C13_Witness ==
  /\ pc = "returned"
  /\ Len(tokens) = 3
  /\ tokens[1].type = "heading"
  /\ tokens[2].type \notin KnownKinds
  /\ tokens[3].type = "paragraph"
  /\ produced[2] = <<>>
  /\ Len(blocks) = 2
  /\ blocks[1].type = "header"
  /\ blocks[2].type = "section"

RECURSIVE StatedText(_)
\* the text the claim assigns to an inline token
StatedText(t) ==
  LET inner == Flatten([k \in 1..Len(t.tokens) |-> StatedText(t.tokens[k])])
  IN CASE t.type = "link" -> <<"<">> \o t.href \o <<"|">> \o inner \o <<">", " ">>
       [] t.type = "em" -> <<"_">> \o inner \o <<"_">>
       [] t.type = "strong" -> <<"*">> \o inner \o <<"*">>
       [] t.type = "del" -> <<"~">> \o inner \o <<"~">>
       [] t.type = "codespan" -> <<Backtick>> \o t.text \o <<Backtick>>
       [] t.type = "text" -> t.text
       [] OTHER -> <<>>

RECURSIVE LinksValid(_)
\* every link in the token has a URL that passes validation
LinksValid(t) ==
  /\ t.type = "link" => validateUrl(t.href)
  /\ \A k \in 1..Len(t.tokens) : LinksValid(t.tokens[k])

\* "*a ~b~* c<https://example.com|_d_> "
BasicMarkdownText ==
  <<"*", "a", " ", "~", "b", "~", "*", " ", "c", "<">> \o hExample
  \o <<"|", "_", "d", "_", ">", " ">>

\* C14: the Phrase Renderer maps a link with a valid URL to "<url|text> ",
\* emphasis to "_text_", strong to "*text*", strike to "~text~", a code span
\* to its text between backticks in a single call, and plain text to itself,
\* text being the concatenation of the rendered children; the basic-markdown
\* example yields one Section with "*a ~b~* c<https://example.com|_d_> ".
C14_PhraseMapping ==
  /\ \A i \in 1..Len(tokens) :
       tokens[i].type = "paragraph" =>
         \A k \in 1..Len(tokens[i].tokens) :
           LET t == tokens[i].tokens[k]
               stated(r) ==
                 /\ r.err = NoError => r.text = StatedText(t)
                 /\ t.type = "codespan" => r.err = NoError /\ r.peak = 1
           IN (t.type # "image" /\ LinksValid(t)) => stated(parseMrkdwn(t, 0))
  /\ (pc = "returned" /\ tokens = <<BasicMarkdown>>) =>
       /\ Len(blocks) = 1
       /\ blocks[1].type = "section"
       /\ blocks[1].text = BasicMarkdownText

\* C14 witness: the basic-markdown example was converted to its one Section
C14_Witness ==
  /\ pc = "returned"
  /\ tokens = <<BasicMarkdown>>
  /\ blocks = <<section(BasicMarkdownText)>>

\* C15: a link token whose URL fails validation never yields a File block or
\* a link element: it degrades to plain text (its unwrapped child text in a
\* Section, or a plain text element), and no error is propagated.
C15_InvalidUrlDegrades ==
  /\ \A i \in Converted :
       (IsLinkParagraph(tokens[i]) /\ ~validateUrl(tokens[i].tokens[1].href)) =>
         /\ CountOfType(produced[i], "file") = 0
         /\ CountOfType(produced[i], "file") = 0 =>
              produced[i] =
                <<section(Flatten([k \in 1..Len(tokens[i].tokens[1].tokens) |->
                                     StatedText(tokens[i].tokens[1].tokens[k])]))>>
         /\ \A e \in 1..Len(richElementsOf(tokens[i].tokens[1])) :
              richElementsOf(tokens[i].tokens[1])[e].type = "text"
  /\ \A i \in 1..Len(tokens) :
       (IsLinkParagraph(tokens[i]) /\ ~validateUrl(tokens[i].tokens[1].href)) =>
         ~(pc = "thrown" /\ pos = i)

RECURSIVE ChildText(_)
\* the plain text of an inline token: a styled token or a link is unwrapped
\* to its child text, a line break has none
ChildText(t) ==
  CASE t.type \in {"em", "strong", "del", "link"} ->
         Flatten([k \in 1..Len(t.tokens) |-> ChildText(t.tokens[k])])
    [] t.type = "br" -> <<>>
    [] OTHER -> parsePlainText(t)

ChildTextOf(ts) == Flatten([k \in 1..Len(ts) |-> ChildText(ts[k])])

\* C16 (as stated): every heading token yields exactly one Header block whose
\* text is the concatenation of the plain text of its inline children.
C16_HeaderPlainText ==
  /\ \A i \in Converted :
       tokens[i].type = "heading" =>
         /\ Len(produced[i]) = 1
         /\ produced[i][1].type = "header"
         /\ produced[i][1].text = ChildTextOf(tokens[i].tokens)
  /\ ~ThrewAt("heading")

\* C16 (amended): every heading token, whatever its level, yields exactly one
\* Header block and never an error; its text is the concatenation of the
\* plain text of its inline children (styled tokens and links unwrapped to
\* their child text, nothing for a line break), cut to the Header ceiling of
\* 150 characters when it is longer.
C16_HeaderPlainTextCut ==
  /\ \A i \in Converted :
       tokens[i].type = "heading" =>
         /\ Len(produced[i]) = 1
         /\ produced[i][1].type = "header"
         /\ Len(produced[i][1].text) <= MAX_HEADER_LENGTH
         /\ produced[i][1].text =
              SubSeq(ChildTextOf(tokens[i].tokens), 1,
                     Min(Len(ChildTextOf(tokens[i].tokens)), MAX_HEADER_LENGTH))
  /\ ~ThrewAt("heading")

\* C16 witness: a heading of a strong token, a line break, a code span and a
\* link around emphasis became the Header with the unwrapped text
C16_Witness ==
  \E i \in Converted :
    /\ tokens[i].type = "heading"
    /\ \E k \in 1..Len(tokens[i].tokens) : tokens[i].tokens[k].type = "strong"
    /\ \E k \in 1..Len(tokens[i].tokens) : tokens[i].tokens[k].type = "br"
    /\ \E k \in 1..Len(tokens[i].tokens) : tokens[i].tokens[k].type = "link"
    /\ produced[i] = <<header(<<"a", Backtick, "b", Backtick, "a">>)>>

\* a blockquote whose children are all lists
IsListQuote(token) ==
  /\ token.type = "blockquote"
  /\ token.tokens # <<>>
  /\ \A k \in 1..Len(token.tokens) : token.tokens[k].type = "list"

\* the list tokens a top-level token hands to parseList, in order
ListsOf(token) ==
  IF token.type = "list" THEN <<token>>
  ELSE IF IsListQuote(token) THEN token.tokens
  ELSE <<>>

\* the elements the child tokens of a list item contribute
ItemContent(item) ==
  Flatten([n \in 1..Len(item.tokens) |-> itemTokenElements(item.tokens[n])])

\* the block is the one RichText block the claim describes for the list
IsListBlockFor(list, b) ==
  /\ b.type = "rich_text"
  /\ Len(b.elements) = 1
  /\ b.elements[1].type = "rich_text_list"
  /\ b.elements[1].style = (IF list.ordered THEN "ordered" ELSE "bullet")
  /\ Len(b.elements[1].elements) = Len(list.items)
  /\ \A n \in 1..Len(list.items) :
       LET sec == b.elements[1].elements[n]
           content == ItemContent(list.items[n])
       IN /\ sec.type = "rich_text_section"
          /\ Len(sec.elements) >= Len(content)
          /\ SubSeq(sec.elements, Len(sec.elements) - Len(content) + 1,
                    Len(sec.elements)) = content

\* C17: every list token yields exactly one RichText block holding one
\* rich-text-list element with exactly one rich_text_section per top-level
\* item, in item order; the style is ordered if and only if the list token is
\* marked ordered, and bullet otherwise, task lists included.
C17_OneListBlock ==
  /\ \A i \in Converted :
       /\ Len(ListsOf(tokens[i])) > 0 => Len(produced[i]) = Len(ListsOf(tokens[i]))
       /\ \A k \in 1..Len(ListsOf(tokens[i])) :
            IsListBlockFor(ListsOf(tokens[i])[k], produced[i][k])
  /\ ~ThrewAt("list")

\* C17 witness: an ordered list of three items, one of them a task, became
\* one ordered rich-text list of three sections
C17_Witness ==
  \E i \in Converted :
    /\ tokens[i].type = "list"
    /\ tokens[i].ordered
    /\ Len(tokens[i].items) = 3
    /\ tokens[i].items[2].task
    /\ Len(produced[i]) = 1
    /\ produced[i][1].elements[1].style = "ordered"
    /\ Len(produced[i][1].elements[1].elements) = 3

\* the section of the item starts with the glyph the configured function
\* gives for its checked state, and has no prefix when the item is no task
GlyphFirst(item, sec, opts) ==
  IF item.task
  THEN /\ sec.elements # <<>>
       /\ sec.elements[1] =
            RichElement("text", checkboxPrefix(opts, item.checked), "none", <<>>)
  ELSE sec.elements = ItemContent(item)

\* C18: for every task item of every list the transformation converts, at top
\* level or inside a blockquote, the first element of the item is the text
\* element of the configured checkbox-glyph function applied to the checked
\* state (the default glyphs only when none is configured); an item that is
\* no task gets no prefix.
C18_ConfiguredGlyph ==
  \A i \in Converted :
    \A k \in 1..Len(ListsOf(tokens[i])) :
      \A n \in 1..Len(ListsOf(tokens[i])[k].items) :
        GlyphFirst(ListsOf(tokens[i])[k].items[n],
                   produced[i][k].elements[1].elements[n], options)

RECURSIVE ItemTexts(_)
\* the texts of the items of a list and of the lists nested in its items
ItemTexts(list) ==
  UNION {{item.tokens[n].text : n \in {m \in 1..Len(item.tokens) :
                                         item.tokens[m].type = "text"}}
         \cup UNION {ItemTexts(item.tokens[n]) : n \in {m \in 1..Len(item.tokens) :
                                                        item.tokens[m].type = "list"}}
         : item \in {list.items[k] : k \in 1..Len(list.items)}}

\* the texts of the items of the lists nested in the items of the list
NestedItemTexts(list) ==
  UNION {UNION {ItemTexts(item.tokens[n])
                  : n \in {m \in 1..Len(item.tokens) : item.tokens[m].type = "list"}}
         : item \in {list.items[k] : k \in 1..Len(list.items)}}

\* the texts of the elements of the sections of a rich-text list block
SectionTexts(b) ==
  UNION {{sec.elements[e].text : e \in 1..Len(sec.elements)}
         : sec \in {b.elements[1].elements[n] : n \in 1..Len(b.elements[1].elements)}}

\* C19: the items of a list nested in a list item are flattened into the one
\* rich-text list block of the outer list: the text of every nested item is
\* present in that block, and no nested list structure or further block is
\* produced.
C19_NestedFlattened ==
  \A i \in Converted :
    (tokens[i].type = "list" /\ NestedItemTexts(tokens[i]) # {}) =>
      /\ Len(produced[i]) = 1
      /\ IsListBlockFor(tokens[i], produced[i][1])
      /\ \A n \in 1..Len(produced[i][1].elements[1].elements) :
           \A e \in 1..Len(produced[i][1].elements[1].elements[n].elements) :
             produced[i][1].elements[1].elements[n].elements[e].type \in {"text", "link"}
      /\ NestedItemTexts(tokens[i]) \subseteq SectionTexts(produced[i][1])

\* the ceilings of a Table block
MAX_TABLE_ROWS == 100
MAX_ROW_CELLS == 20

\* the table is within the ceilings of the Table block
WithinTableCeilings(t) ==
  /\ Len(t.rows) + 1 <= MAX_TABLE_ROWS
  /\ Len(t.header) <= MAX_ROW_CELLS

\* the output cell has the representation the claim gives the source cell
CellAsStated(cell, out) ==
  IF \E k \in 1..Len(cell.tokens) :
       cell.tokens[k].type \in {"strong", "em", "del", "link", "codespan"}
  THEN out.type = "rich_text"
  ELSE /\ out.type = "raw_text"
       /\ out.text = Flatten([k \in 1..Len(cell.tokens) |-> cell.tokens[k].text])

\* row r of the table token: the header row, then the body rows
SourceRow(t, r) == IF r = 1 THEN t.header ELSE t.rows[r - 1]

\* C20: in a markup-form table the representation is chosen per cell: a cell
\* is rich-text-typed if and only if one of its child tokens is strong,
\* emphasis, strike, link or code-span, otherwise raw-text-typed with the
\* concatenated text of its children, whatever the other cells hold; the
\* header row is the first row and the body rows follow in order.
C20_PerCellChoice ==
  /\ \A i \in Converted :
       (tokens[i].type = "table" /\ WithinTableCeilings(tokens[i])) =>
         /\ Len(produced[i]) = 1
         /\ produced[i][1].type = "table"
         /\ Len(produced[i][1].rows) = Len(tokens[i].rows) + 1
         /\ \A r \in 1..Len(produced[i][1].rows) :
              /\ Len(produced[i][1].rows[r]) = Len(SourceRow(tokens[i], r))
              /\ \A c \in 1..Len(produced[i][1].rows[r]) :
                   CellAsStated(SourceRow(tokens[i], r)[c], produced[i][1].rows[r][c])
  /\ ~ThrewAt("table")

\* C20 witness: the 3-row/3-column table with one bold cell became a Table
\* block with that one cell rich-text-typed and the eight others raw-text-typed
C20_Witness ==
  \E i \in Converted :
    /\ tokens[i] = BoldCellTable
    /\ Len(produced[i][1].rows) = 3
    /\ \A r \in 1..3 : \A c \in 1..3 :
         produced[i][1].rows[r][c].type =
           (IF r = 2 /\ c = 2 THEN "rich_text" ELSE "raw_text")

\* an island whose parse fails
IsFailedIsland(token) == token.type = "html" /\ token.res.failed

IsNotFailedIsland(token) == ~IsFailedIsland(token)

\* parseBlocks on a token list, for lists no token of which raises
parseBlocksOf(ts, opts) ==
  Flatten([k \in 1..Len(ts) |-> parseToken(ts[k], opts, 0).blocks])

\* C21: a failure while parsing an embedded-markup island never propagates:
\* the call does not end in an error at the island, the island contributes an
\* empty block list, and the output of the call is the output for the same
\* document without its failed islands.
C21_IslandFailureContained ==
  /\ \A i \in 1..Len(tokens) :
       tokens[i].type = "html" => ~(pc = "thrown" /\ pos = i)
  /\ \A i \in Converted : IsFailedIsland(tokens[i]) => produced[i] = <<>>
  /\ pc = "returned" =>
       blocks = parseBlocksOf(SelectSeq(tokens, IsNotFailedIsland), options)

\* C21 witness: a failed island between two tokens that produced blocks
C21_Witness ==
  /\ pc = "returned"
  /\ Len(tokens) = 3
  /\ IsFailedIsland(tokens[2])
  /\ produced[1] # <<>>
  /\ produced[2] = <<>>
  /\ produced[3] # <<>>
  /\ blocks = produced[1] \o produced[3]

\* longest source of a text paragraph whose escaping is compared in full
MaxSource == 8

Amp == <<"&", "a", "m", "p", ";">>
Lt == <<"&", "l", "t", ";">>
Gt == <<"&", "g", "t", ";">>

RECURSIVE DecodeEntities(_)
\* the text with each of the three named entities read back as its character
DecodeEntities(t) ==
  IF t = <<>> THEN <<>>
  ELSE IF StartsWith(t, Amp) THEN <<"&">> \o DecodeEntities(SubSeq(t, 6, Len(t)))
  ELSE IF StartsWith(t, Lt) THEN <<"<">> \o DecodeEntities(SubSeq(t, 5, Len(t)))
  ELSE IF StartsWith(t, Gt) THEN <<">">> \o DecodeEntities(SubSeq(t, 5, Len(t)))
  ELSE <<Head(t)>> \o DecodeEntities(Tail(t))

\* the text holds no bare '<' or '>' and each '&' opens one of the entities
OnlyNamedEntities(t) ==
  \A k \in 1..Len(t) :
    /\ t[k] \notin {"<", ">"}
    /\ t[k] = "&" =>
         \E e \in {Amp, Lt, Gt} : StartsWith(SubSeq(t, k, Len(t)), e)

CountOfChar(s, c) == Cardinality({k \in 1..Len(s) : s[k] = c})

\* a paragraph whose inline tokens are all text leaves, of a short source
IsTextParagraph(token) ==
  /\ token.type = "paragraph"
  /\ token.tokens # <<>>
  /\ \A k \in 1..Len(token.tokens) : token.tokens[k].type = "text"
  /\ Len(RawOf(token.tokens)) \in 1..MaxSource

\* C22: in the text of an inline text leaf every '&', '<' and '>' of the
\* source is replaced by its named entity and no other character is changed;
\* a single quote of the source is the literal character in the leaf and in
\* the Section the paragraph becomes.
C22_TextEscaping ==
  \A i \in Converted :
    IsTextParagraph(tokens[i]) =>
      /\ \A k \in 1..Len(tokens[i].tokens) :
           LET leaf == tokens[i].tokens[k]
           IN /\ OnlyNamedEntities(leaf.text)
              /\ DecodeEntities(leaf.text) = leaf.raw
              /\ CountOfChar(leaf.text, Quote) = CountOfChar(leaf.raw, Quote)
      /\ Len(produced[i]) = 1
      /\ produced[i][1].type = "section"
      /\ OnlyNamedEntities(produced[i][1].text)
      /\ DecodeEntities(produced[i][1].text) = RawOf(tokens[i].tokens)
      /\ CountOfChar(produced[i][1].text, Quote)
           = CountOfChar(RawOf(tokens[i].tokens), Quote)

\* C22 witness: the source <a>'& was lexed and converted to the Section
\* &lt;a&gt;'&amp;
C22_Witness ==
  /\ pc = "returned"
  /\ Len(tokens) = 1
  /\ tokens[1] = Paragraph(lexInline(sTags, <<>>))
  /\ Len(tokens[1].tokens) = 2
  /\ blocks = <<section(Lt \o <<"a">> \o Gt \o <<Quote>> \o Amp)>>

\* the builder is a Quote Builder
BuildsQuote == build # <<>> /\ build.element.type = "blockquote"

\* the link is one the classifier makes a file of
IsFileLink(t) ==
  /\ t.type = "link"
  /\ isFileType(fileExtensionOf(detectFileExtension(t.href),
                                detectFileExtension(PlainTextOf(t.tokens))))

\* a paragraph child of the blockquote holds a file-triggering link
HasFileLink(q) ==
  \E i \in 1..Len(q.tokens) :
    /\ q.tokens[i].type = "paragraph"
    /\ \E k \in 1..Len(q.tokens[i].tokens) : IsFileLink(q.tokens[i].tokens[k])

\* what holds of the Quote Builder in every state
QuoteClassified ==
  BuildsQuote =>
    /\ build.path = "unclassified" => (build.out = <<>> /\ build.acc = <<>>)
    /\ build.status = "returned" => build.path \in {"simple", "complex"}
    /\ build.status = "returned" => build.out = parseBlockquote(build.element, 0).blocks
    /\ build.path = "simple" =>
         /\ Len(build.out) <= 1
         /\ \A k \in 1..Len(build.out) : IsQuoteBlock(build.out[k])
         /\ build.acc = <<>>
    /\ build.path = "complex" =>
         \A k \in 1..Len(build.out) :
           IsQuoteBlock(build.out[k]) =>
             /\ build.origin[k] # 0
             /\ build.element.tokens[build.origin[k]].type = "blockquote"
    /\ (build.status = "returned" /\ HasFileLink(build.element)) =>
         /\ build.path = "complex"
         /\ CountOfType(build.out, "file") >= 1

\* the path, once chosen, stays
PathKept ==
  (BuildsQuote /\ build.path # "unclassified") => build'.path = build.path

\* C23: the Quote Builder chooses the path of a blockquote once, before any
\* block of the construct exists, and keeps it; a returned blockquote took
\* exactly one path; the simple path yields only the rich-text-quote block,
\* the complex path yields a rich-text-quote block only for a nested
\* blockquote; a blockquote with a file-triggering link in a paragraph takes
\* the complex path and its output holds the File block.
C23_ClassifiedOnce == [](QuoteClassified) /\ [][PathKept]_vars

\* C23 witness: a blockquote with a file link returned on the complex path
\* with the File block, after a Section
C23_Witness ==
  /\ BuildsQuote
  /\ build.status = "returned"
  /\ build.path = "complex"
  /\ onlyParagraphs(build.element)
  /\ HasFileLink(build.element)
  /\ CountOfType(build.out, "file") = 1
  /\ CountOfType(build.out, "section") >= 1

\* the builder is about to hand the inline token at inner to the accumulator
AtInline ==
  /\ build # <<>>
  /\ build.status = "accumulating"
  /\ build.inner <= Len(currentParagraph.tokens)

\* the token is an image whose Image block cannot be built
IsBrokenImage(t) == t.type = "image" /\ ~validateUrl(t.href)

\* the step that meets such an image changes nothing but the position
BrokenImageSkipped ==
  (AtInline /\ IsBrokenImage(currentParagraph.tokens[build.inner])) =>
    /\ build'.acc = build.acc
    /\ build'.out = build.out
    /\ build'.status = "accumulating"
    /\ build'.err = NoError
    /\ build'.inner = build.inner + 1
    /\ build'.child = build.child

\* every Image block of the lists is complete and has a valid URL
ImagesWhole(bs) ==
  \A k \in 1..Len(bs) :
    bs[k].type = "image" =>
      /\ validateUrl(bs[k].image_url)
      /\ bs[k].alt_text # <<>>

IsNotBrokenImage(t) == ~IsBrokenImage(t)

\* what holds in every state: only whole Image blocks, and a returned
\* paragraph equals the paragraph without its broken images
BrokenImagesAbsent ==
  build # <<>> =>
    /\ ImagesWhole(build.acc)
    /\ ImagesWhole(build.out)
    /\ (build.status = "returned" /\ build.element.type = "paragraph") =>
         build.out =
           parseParagraphFrom(SelectSeq(build.element.tokens, IsNotBrokenImage),
                              <<>>, 0).acc

\* C24: an image token whose Image block cannot be built leaves the
\* accumulator unchanged, raises nothing and the accumulation goes on with
\* the next token; no Image block with an invalid URL is ever in the list.
C24_BrokenImageSkipped == [](BrokenImagesAbsent) /\ [][BrokenImageSkipped]_vars

\* C24 witness: a paragraph with a broken image between two texts returned
\* one Section holding both texts
C24_Witness ==
  /\ build # <<>>
  /\ build.status = "returned"
  /\ build.element.type = "paragraph"
  /\ Len(build.element.tokens) = 3
  /\ build.element.tokens[1].type = "text"
  /\ IsBrokenImage(build.element.tokens[2])
  /\ build.element.tokens[3].type = "text"
  /\ build.out = <<section(build.element.tokens[1].text \o build.element.tokens[3].text)>>

\* C25 (as stated): the column settings of a markup table hold at most 20
\* entries and, when not empty, end with an entry that carries an alignment:
\* left and unset columns after the last center or right column add nothing.
C25_NoTrailingPlaceholder ==
  \A i \in Converted :
    tokens[i].type = "table" =>
      LET S == produced[i][1].column_settings
      IN /\ Len(S) <= MAX_COLUMN_SETTINGS
         /\ S # <<>> => S[Len(S)] # EmptySetting

\* the accumulator of a running parseParagraph changes only at its end: the
\* blocks before the last stay, and the last either stays or is a Section
\* whose text grew at its end
OnlyLastSectionGrows ==
  (build # <<>> /\ build.status = "accumulating" /\ build'.status = "accumulating") =>
    /\ Len(build'.acc) >= Len(build.acc)
    /\ \A k \in 1..Len(build.acc) :
         \/ build'.acc[k] = build.acc[k]
         \/ /\ k = Len(build.acc)
            /\ build.acc[k].type = "section"
            /\ build'.acc[k].type = "section"
            /\ StartsWith(build'.acc[k].text, build.acc[k].text)

\* parseParagraph hands over the blocks of its accumulator as they are
AccumulatorReturned ==
  (build # <<>> /\ build.status = "accumulating" /\ build'.status \in {"dispatching", "returned"})
    => build'.out = build.out \o build.acc

\* the blocks whose builder has returned are the list out, which only grows
ReturnedBlocksKept ==
  build # <<>> =>
    /\ Len(build'.out) >= Len(build.out)
    /\ \A k \in 1..Len(build.out) : build'.out[k] = build.out[k]

\* the blocks whose builder has returned stay, but for the Sections with a
\* text that the last step of the complex path rewrites
ReturnedBlocksKeptButQuoted ==
  build # <<>> =>
    /\ Len(build'.out) >= Len(build.out)
    /\ \A k \in 1..Len(build.out) :
         \/ build'.out[k] = build.out[k]
         \/ /\ build.path = "complex"
            /\ build.status = "dispatching"
            /\ build.child > Len(build.element.tokens)
            /\ build'.status = "returned"
            /\ build.out[k].type = "section"
            /\ build.out[k].text # <<>>
            /\ build'.out[k] =
                 [build.out[k] EXCEPT !.text = <<">", " ">> \o quoteNewlines(@)]

\* C26 (as stated): no block changes after the builder that made it
\* returned; the only change to a pushed block is text appended to the
\* Section that is the last element of the running accumulator.
C26_NoLateMutation ==
  [][OnlyLastSectionGrows /\ AccumulatorReturned /\ ReturnedBlocksKept]_vars

\* C26 (amended): as stated, except that the complex path of the Quote
\* Builder, as its last step, rewrites the text of each Section with a
\* non-empty text among the blocks its children returned.
C26_LateMutationOnlyQuoting ==
  [][OnlyLastSectionGrows /\ AccumulatorReturned /\ ReturnedBlocksKeptButQuoted]_vars

\* C26 witness: the complex path returned a Section of a paragraph child,
\* rewritten, next to a Header it left alone
C26_Witness ==
  /\ BuildsQuote
  /\ build.status = "returned"
  /\ build.path = "complex"
  /\ \E k \in 1..Len(build.out) :
       /\ build.out[k].type = "section"
       /\ build.element.tokens[build.origin[k]].type = "paragraph"
       /\ StartsQuoted(build.out[k].text)
  /\ \E k \in 1..Len(build.out) :
       /\ build.out[k].type = "header"
       /\ ~StartsQuoted(build.out[k].text)

\* the list of the paragraph builder: its accumulator while it runs, its
\* output once it has returned
ParagraphList ==
  IF build.status = "returned" /\ build.element.type = "paragraph"
  THEN build.out
  ELSE build.acc

\* no two neighbours are Sections, and the Sections are at most one more
\* than the Image and File blocks
SectionsApart(bs) ==
  /\ \A k \in 1..(Len(bs) - 1) : ~(bs[k].type = "section" /\ bs[k + 1].type = "section")
  /\ CountOfType(bs, "section") <= CountOfType(bs, "image") + CountOfType(bs, "file") + 1

\* a step of the accumulator that pushes a Section finds the list empty or
\* ending in an Image or File block
SectionPushedAfterBreak ==
  (AtInline /\ build'.status = "accumulating" /\ Len(build'.acc) > Len(build.acc)
     /\ build'.acc[Len(build'.acc)].type = "section") =>
    \/ build.acc = <<>>
    \/ build.acc[Len(build.acc)].type \in {"image", "file"}

\* C27: after every prefix of the inline tokens of a paragraph the list of
\* the accumulator has no two adjacent Sections; a Section is pushed only
\* onto an empty list or after an Image or File block, so the Sections are
\* at most the Image and File blocks plus one.
C27_NoAdjacentSections ==
  [](build # <<>> => SectionsApart(ParagraphList)) /\ [][SectionPushedAfterBreak]_vars

\* C27 witness: after three tokens the list is Section, Image, Section and
\* the paragraph has not returned yet
C27_Witness ==
  /\ build # <<>>
  /\ build.status = "accumulating"
  /\ build.inner = 4
  /\ Len(build.acc) = 3
  /\ build.acc[1].type = "section"
  /\ build.acc[2].type = "image"
  /\ build.acc[3].type = "section"

\* the string the name of a file link is taken from: the link text when it
\* ends in an extension, else the URL
NameSource(link) ==
  IF detectFileExtension(PlainTextOf(link.tokens)) # NoExtension
  THEN PlainTextOf(link.tokens)
  ELSE link.href

\* the path ends in a dot followed by alphanumeric characters only
EndsInDotAlnum(path) ==
  \E d \in 1..(Len(path) - 1) :
    /\ path[d] = "."
    /\ \A j \in (d + 1)..Len(path) : IsAlnum(path[j])

\* the step that meets a link classified as a file pushes the File block
\* named by the last path segment of the source of the name
FileLinkNamed ==
  (AtInline /\ IsFileLink(currentParagraph.tokens[build.inner])) =>
    LET link == currentParagraph.tokens[build.inner]
        name == SplitLast(Pathname(NameSource(link)), "/")
    IN /\ EndsInDotAlnum(Pathname(NameSource(link)))
       /\ name # <<>>
       /\ ~fileFails(name)
       /\ build'.status = "accumulating"
       /\ build'.acc = Append(build.acc, file(name))

\* C28: for a link classified as a file the name handed to file() is the
\* non-empty last path segment of its source, which ends in a dot and
\* alphanumeric characters: the default "Document" is not used and the link
\* is never rendered as a styled link for want of a name.
C28_FileNameNonEmpty == [][FileLinkNamed]_vars

\* C28 witness: a link to a URL ending in "/" whose text is r.pdf became the
\* File block r.pdf
C28_Witness ==
  /\ build # <<>>
  /\ build.status = "returned"
  /\ build.element = Paragraph(<<Link(hDir, <<Text(sPdfName)>>)>>)
  /\ extractFileName(hDir) = Document
  /\ build.out = <<file(sPdfName)>>

RECURSIVE MrkdwnDepth(_)
\* the deepest nesting of parseMrkdwn calls the token leads to
MrkdwnDepth(t) ==
  IF t.type \in {"link", "em", "strong", "del"} /\ t.tokens # <<>>
  THEN 1 + Max(MrkdwnDepth(t.tokens[1]),
               IF Len(t.tokens) > 1
               THEN MrkdwnDepth([t EXCEPT !.tokens = Tail(@)]) - 1
               ELSE 0)
  ELSE 1

\* a paragraph with an inline token nested beyond the ceiling
IsDeepParagraph(token) ==
  /\ token.type = "paragraph"
  /\ \E k \in 1..Len(token.tokens) : MrkdwnDepth(token.tokens[k]) > MaxRecursionDepth

RECURSIVE HoldsDeepParagraph(_)
\* the token is such a paragraph or a blockquote around one
HoldsDeepParagraph(token) ==
  \/ IsDeepParagraph(token)
  \/ /\ token.type = "blockquote"
     /\ \E k \in 1..Len(token.tokens) : HoldsDeepParagraph(token.tokens[k])

\* a recursion-limit error stems from a paragraph, at top level or in a blockquote
RaisedByParagraph ==
  (pc = "thrown" /\ err = RecursionError) =>
    /\ pos <= Len(tokens)
    /\ tokens[pos].type \in {"paragraph", "blockquote"}
    /\ HoldsDeepParagraph(tokens[pos])

\* the conversion of a heading, a list or a table yields one block and
\* leaves the counter and its highest value as they were
CounterUntouched ==
  (pc = "parsing" /\ pos <= Len(tokens) /\ tokens[pos].type \in {"heading", "list", "table"})
    => /\ recursionDepth' = recursionDepth
       /\ peak' = peak
       /\ pc' = "parsing"
       /\ err' = NoError
       /\ Len(produced') = Len(produced) + 1
       /\ Len(produced'[Len(produced')]) = 1

\* C29: a recursion-limit error is raised only for a paragraph, at top level
\* or inside a blockquote (its trial parse included); a heading, a list or a
\* table is converted without the counter changing and without that error,
\* however deep its inline content is nested.
C29_OnlyParagraphsRaise == [](RaisedByParagraph) /\ [][CounterUntouched]_vars

\* C29 witness: a table whose cells are nested beyond the ceiling was
\* converted and the counter never left zero
C29_Witness ==
  /\ pc = "returned"
  /\ Len(tokens) = 1
  /\ tokens[1] = DeepTable
  /\ MrkdwnDepth(tokens[1].header[1].tokens[1]) > MaxRecursionDepth
  /\ Len(blocks) = 1
  /\ blocks[1].type = "table"
  /\ peak = 0

\* the island is given by its tags in source order
IsTagIsland(token) == token.type = "html" /\ "tags" \in DOMAIN token

\* table before image before video
FamilyRank(type) == CASE type = "table" -> 1 [] type = "image" -> 2 [] OTHER -> 3

\* the URLs of the blocks of one kind, in output order
ImageUrls(bs) ==
  LET urls(sel) == [k \in 1..Len(sel) |-> sel[k].image_url]
  IN urls(SelectSeq(bs, LAMBDA b : b.type = "image"))

VideoUrls(bs) ==
  LET urls(sel) == [k \in 1..Len(sel) |-> sel[k].video_url]
  IN urls(SelectSeq(bs, LAMBDA b : b.type = "video"))

\* the sources of the tags of a family that have a valid URL, in source order
ValidSources(tags, family) ==
  LET srcs(sel) == [k \in 1..Len(sel) |-> sel[k].el.src]
  IN srcs(SelectSeq(tags, LAMBDA t : t.family = family /\ validateUrl(t.el.src)))

\* C30: the blocks of one island are ordered by tag family, whatever the
\* order of the tags in the island: at most one Table block first, then the
\* Image blocks in source order, then the Video blocks in source order.
C30_FamilyOrder ==
  \A i \in Converted :
    IsTagIsland(tokens[i]) =>
      /\ \A j \in 1..Len(produced[i]) :
           /\ produced[i][j].type \in {"table", "image", "video"}
           /\ \A k \in (j + 1)..Len(produced[i]) :
                FamilyRank(produced[i][j].type) <= FamilyRank(produced[i][k].type)
      /\ CountOfType(produced[i], "table") <= 1
      /\ ImageUrls(produced[i]) = ValidSources(tokens[i].tags, "img")
      /\ VideoUrls(produced[i]) = ValidSources(tokens[i].tags, "video")

\* C30 witness: an island of a video, an image and a table, in this order,
\* became a Table, an Image and a Video block
C30_Witness ==
  \E i \in Converted :
    /\ IsTagIsland(tokens[i])
    /\ Len(tokens[i].tags) = 3
    /\ tokens[i].tags[1].family = "video"
    /\ tokens[i].tags[2].family = "img"
    /\ tokens[i].tags[3].family = "table"
    /\ Len(produced[i]) = 3
    /\ produced[i][1].type = "table"
    /\ produced[i][2].type = "image"
    /\ produced[i][3].type = "video"

====
